---- MODULE Spec2Model ----
(***************************************************************************)
(* Model of the keyfile settings plugin of NetworkManager                  *)
(* (src/settings/plugins/keyfile/nms-keyfile-plugin.c): the index of       *)
(* NMSKeyfileConnInfo records, _do_reload_all() and _do_load_connection(). *)
(*                                                                         *)
(* The file system (profiles and ".nmloaded" markers in the keyfile        *)
(* directories) is the environment; the plugin's operations read it.       *)
(***************************************************************************)
EXTENDS Integers, Sequences, FiniteSets, TLC

(***************************************************************************)
(* Bounds of the model.                                                    *)
(***************************************************************************)
\* number of keyfiles and markers the environment writes to the keyfile directories
MaxFsOps == 2
\* number of NMSKeyfileStorage objects created in one behaviour
MaxStorages == 3
\* number of directories in the dirname_libs argument of the classifier
MaxLibs == 2

(***************************************************************************)
(* Values.                                                                 *)
(***************************************************************************)
UUIDs == {"X", "Y"}

\* an NMConnection of a given UUID: <<settings, secrets>>.  The secrets stand
\* for the agent-owned / not-saved secrets of the profile.  <<>> is NULL.
NoConnection == <<>>

\* struct timespec st_mtim is <<tv_sec, tv_nsec>>

\* NMSKeyfileStorageType.  A record made by g_malloc0() has the zero value,
\* which is none of the types a profile is exported with.
STORAGE_TYPE_RUN == "RUN"
STORAGE_TYPE_ETC == "ETC"
STORAGE_TYPE_LIB == "LIB"
STORAGE_TYPE_MEM == "MEM"
STORAGE_TYPE_ZERO == "ZERO"

\* priv->dirname_run, priv->dirname_etc, priv->dirname_libs
dirname_run == "/run/NetworkManager/system-connections"
dirname_etc == "/etc/NetworkManager/system-connections"
dirname_libs == <<"/usr/lib/NetworkManager/system-connections">>
\* a second read-only directory, for a dirname_libs with more than one entry
dirname_lib2 == "/usr/local/lib/NetworkManager/system-connections"

Dirnames == {dirname_run, dirname_etc} \cup {dirname_libs[i] : i \in 1..Len(dirname_libs)}

\* file names, in strcmp() order
FileNameOrder == <<"a.nmconnection", "b.nmconnection">>
FileNames == {FileNameOrder[i] : i \in 1..Len(FileNameOrder)}

\* a path: abs is whether it starts with '/', dir and name are g_build_filename's parts
Path(d, n) == [abs |-> TRUE, dir |-> d, name |-> n]
\* the places a keyfile can be at: two in the /etc directory, one in each other
Slots == {Path(dirname_run, FileNameOrder[1]),
          Path(dirname_etc, FileNameOrder[1]),
          Path(dirname_etc, FileNameOrder[2]),
          Path(dirname_libs[1], FileNameOrder[1])}
RelativePath == [abs |-> FALSE, dir |-> "system-connections", name |-> FileNameOrder[1]]
NM_KEYFILE_PATH_NMLOADED_NULL == [abs |-> TRUE, dir |-> "/dev", name |-> "null"]
\* a file that exists outside of the keyfile directories
ForeignFile == [abs |-> TRUE, dir |-> "/etc", name |-> "hostname"]

\* optional values: <<>> is NULL, <<v>> is v
None == <<>>
Some(v) == <<v>>

\* what the environment makes a ".nmloaded" marker of a directory point to
LoadedTargets(d) ==
    IF d = dirname_run
    THEN {NM_KEYFILE_PATH_NMLOADED_NULL, RelativePath, ForeignFile,
          Path(dirname_etc, FileNameOrder[1]), Path(dirname_etc, FileNameOrder[2]),
          Path(dirname_libs[1], FileNameOrder[1])}
    ELSE {NM_KEYFILE_PATH_NMLOADED_NULL, Path(dirname_etc, FileNameOrder[2])}
\* the directories _load_dir() honours markers in, and the environment writes them to
LoadedDirs == {dirname_run, dirname_etc}

NoFile == [exists |-> FALSE, ok |-> FALSE, uuid |-> "", connection |-> NoConnection, mtime |-> <<0, 0>>]
\* a keyfile the reader decodes
Keyfile(u, c, m) == [exists |-> TRUE, ok |-> TRUE, uuid |-> u, connection |-> c, mtime |-> m]

\* the keyfiles the environment writes to each place.  In /etc the second file
\* is newer than the first by tv_nsec, or as old, or older by tv_sec; it has
\* the same settings with other secrets, the same connection, or other settings.
SlotRun == Path(dirname_run, FileNameOrder[1])
SlotEtc1 == Path(dirname_etc, FileNameOrder[1])
SlotEtc2 == Path(dirname_etc, FileNameOrder[2])
SlotLib == Path(dirname_libs[1], FileNameOrder[1])

\* a file the reader rejects; what a reader without verification would make of it
Garbage == [exists |-> TRUE, ok |-> FALSE, uuid |-> "X", connection |-> <<3, 0>>, mtime |-> <<2, 1>>]

KeyfilesAt(p) ==
    IF p = SlotRun THEN {Keyfile("X", <<2, 0>>, <<1, 1>>)}
    ELSE IF p = SlotEtc1 THEN {Keyfile("X", <<1, 0>>, <<2, 0>>), Garbage}
    ELSE IF p = SlotEtc2 THEN {Keyfile("X", <<1, 1>>, <<2, 1>>),
                               Keyfile("X", <<1, 0>>, <<2, 0>>),
                               Keyfile("X", <<2, 0>>, <<1, 1>>),
                               Keyfile("Y", <<1, 0>>, <<2, 0>>)}
    ELSE {Keyfile("X", <<2, 0>>, <<2, 1>>),
          Keyfile("Y", <<1, 0>>, <<2, 0>>)}

\* the UUIDs the environment writes .nmloaded markers for
LoadedUUIDs == {"X"}
\* the profiles a caller adds in memory
MemUUIDs == {"X"}
MemConnections == {<<1, 1>>}

VARIABLES
    files,              \* file system: Slots -> file
    loaded,             \* file system: <<dirname, uuid>> -> optional target of the .nmloaded marker
    fsops,              \* number of files the environment has written so far
    lst_head,           \* priv->conn_infos.lst_head: sequence of UUIDs
    idx,                \* priv->conn_infos.idx: set of UUIDs
    conn_info,          \* the NMSKeyfileConnInfo of each UUID
    filename_idx,       \* priv->conn_infos.filename_idx: set of <<path, uuid>>
    storages,           \* every NMSKeyfileStorage created: its conn_info back-link
    events,             \* signals emitted by the current or last operation
    pc,                 \* position of the running operation
    todo,               \* _do_reload_all: the records the loop has still to visit
    events_del,         \* _do_reload_all: queued EventsDelData
    events_mod,         \* _do_reload_all: queued UUIDs
    loaded_path,        \* _do_reload_all: local of the loop body
    loaded_dirname,     \* _do_reload_all: local of the loop body
    loaded_path_masked, \* _do_reload_all: local of the loop body
    st_loaded,          \* _conn_info_storage_data_prioritize_loaded: result of stat()
    last,               \* the operation that ran last, with its arguments and result
    pre,                \* the records as they were when the operation started
    detect,             \* a call of _path_detect_storage_type(): arguments and outputs
    monitoring          \* _monitoring_setup() / _monitoring_clear(): priv->monitors and locals

vars == <<files, loaded, fsops, lst_head, idx, conn_info, filename_idx, storages,
          events, pc, todo, events_del, events_mod, loaded_path, loaded_dirname,
          loaded_path_masked, st_loaded, last, pre, detect, monitoring>>

fsvars == <<files, loaded, fsops>>
locals == <<todo, events_del, events_mod, loaded_path, loaded_dirname,
            loaded_path_masked, st_loaded>>

(***************************************************************************)
(* The file system as the plugin's system calls see it.                    *)
(***************************************************************************)
DirOrder == <<dirname_run, dirname_etc>> \o dirname_libs \o <<dirname_lib2>>
IndexOf(seq, x) == CHOOSE i \in 1..Len(seq) : seq[i] = x

\* st_dev and st_ino of the file at a slot: every file is its own inode
StatIno(p) == 10 * IndexOf(DirOrder, p.dir) + IndexOf(FileNameOrder, p.name)

\* st_dev and st_ino of the file outside of the keyfile directories
StatInoForeign == 99

\* stat(): None when it fails, else the device+inode
stat(p) ==
    IF p = ForeignFile THEN Some(StatInoForeign)
    ELSE IF p \in DOMAIN files /\ files[p].exists THEN Some(StatIno(p)) ELSE None

\* strcmp() on file names
strcmp(a, b) ==
    IF a = b THEN 0
    ELSE IF IndexOf(FileNameOrder, a) < IndexOf(FileNameOrder, b) THEN -1 ELSE 1

\* nm_connection_compare() with IGNORE_AGENT_OWNED_SECRETS | IGNORE_NOT_SAVED_SECRETS
nm_connection_compare(a, b) == a[1] = b[1]

\* the entries g_dir_read_name() returns for a directory
DirEntries(d) ==
    {[kind |-> "keyfile", name |-> n, uuid |-> ""] :
        n \in {m \in FileNames : Path(d, m) \in DOMAIN files /\ files[Path(d, m)].exists}}
    \cup
    {[kind |-> "nmloaded", name |-> "", uuid |-> u] :
        u \in {v \in UUIDs : <<d, v>> \in DOMAIN loaded /\ loaded[<<d, v>>] # None}}

\* the orders a directory can be enumerated in
Enumerations(S) ==
    {s \in [1..Cardinality(S) -> S] : \A i, j \in 1..Cardinality(S) : s[i] = s[j] => i = j}

(***************************************************************************)
(* ConnInfoStorageData                                                     *)
(***************************************************************************)
conn_info_storage_data_new(storage_priority, storage_type, full_filename, connection, st) ==
    [storage_type     |-> storage_type,
     storage_priority |-> storage_priority,
     full_filename    |-> full_filename,
     filename         |-> full_filename.name,
     connection       |-> connection,
     stat_mtime       |-> st.mtime,
     stat_ino         |-> st.ino]

\* NM_CMP_FIELD (a, b, field)
\* NMSKeyfileStorageType as the integer the comparison sees.  The comment of
\* _conn_info_storage_data_cmp() says that the order of the storage types is
\* the inverted order of the storage priorities.
StorageTypeValue(storage_type) ==
    CASE storage_type = STORAGE_TYPE_LIB -> 1
      [] storage_type = STORAGE_TYPE_ETC -> 2
      [] storage_type = STORAGE_TYPE_RUN -> 3
      [] storage_type = STORAGE_TYPE_MEM -> 4
      [] OTHER -> 0

\* lines 328-330: the nm_assert() of _conn_info_storage_data_cmp()
conn_info_storage_data_cmp_assert(a, b) ==
    \/ a.storage_type = b.storage_type
    \/ /\ a.storage_priority # b.storage_priority
       /\ (StorageTypeValue(a.storage_type) < StorageTypeValue(b.storage_type))
              = (a.storage_priority > b.storage_priority)

NM_CMP_FIELD(x, y) == IF x < y THEN -1 ELSE IF x > y THEN 1 ELSE 0

\* the comparison without the storage priority
conn_info_storage_data_cmp_no_priority(a, b) ==
    IF NM_CMP_FIELD(b.stat_mtime[1], a.stat_mtime[1]) # 0
    THEN NM_CMP_FIELD(b.stat_mtime[1], a.stat_mtime[1])
    ELSE IF NM_CMP_FIELD(b.stat_mtime[2], a.stat_mtime[2]) # 0
    THEN NM_CMP_FIELD(b.stat_mtime[2], a.stat_mtime[2])
    ELSE strcmp(a.filename, b.filename)

\* the comparison with older files more important
conn_info_storage_data_cmp_older_first(a, b) ==
    IF NM_CMP_FIELD(a.storage_priority, b.storage_priority) # 0
    THEN NM_CMP_FIELD(a.storage_priority, b.storage_priority)
    ELSE IF NM_CMP_FIELD(a.stat_mtime[1], b.stat_mtime[1]) # 0
    THEN NM_CMP_FIELD(a.stat_mtime[1], b.stat_mtime[1])
    ELSE IF NM_CMP_FIELD(a.stat_mtime[2], b.stat_mtime[2]) # 0
    THEN NM_CMP_FIELD(a.stat_mtime[2], b.stat_mtime[2])
    ELSE strcmp(a.filename, b.filename)

\* the comparison without the file name as last key
conn_info_storage_data_cmp_no_filename(a, b) ==
    IF NM_CMP_FIELD(a.storage_priority, b.storage_priority) # 0
    THEN NM_CMP_FIELD(a.storage_priority, b.storage_priority)
    ELSE IF NM_CMP_FIELD(b.stat_mtime[1], a.stat_mtime[1]) # 0
    THEN NM_CMP_FIELD(b.stat_mtime[1], a.stat_mtime[1])
    ELSE NM_CMP_FIELD(b.stat_mtime[2], a.stat_mtime[2])

conn_info_storage_data_cmp(a, b) ==
    IF NM_CMP_FIELD(a.storage_priority, b.storage_priority) # 0
    THEN NM_CMP_FIELD(a.storage_priority, b.storage_priority)
    ELSE IF NM_CMP_FIELD(b.stat_mtime[1], a.stat_mtime[1]) # 0
    THEN NM_CMP_FIELD(b.stat_mtime[1], a.stat_mtime[1])
    ELSE IF NM_CMP_FIELD(b.stat_mtime[2], a.stat_mtime[2]) # 0
    THEN NM_CMP_FIELD(b.stat_mtime[2], a.stat_mtime[2])
    ELSE strcmp(a.filename, b.filename)

\* c_list_sort(): a stable sort, here by insertion
SortInsert(sorted, x) ==
    LET before == {i \in 0..Len(sorted) :
                      \A j \in 1..i : conn_info_storage_data_cmp(sorted[j], x) <= 0}
        k == CHOOSE i \in before : \A j \in before : j <= i
    IN  SubSeq(sorted, 1, k) \o <<x>> \o SubSeq(sorted, k + 1, Len(sorted))

RECURSIVE c_list_sort(_)
c_list_sort(list) ==
    IF list = <<>> THEN <<>>
    ELSE SortInsert(c_list_sort(SubSeq(list, 1, Len(list) - 1)), list[Len(list)])

(***************************************************************************)
(* NMSKeyfileConnInfo and the index.  The operators below work on a bundle *)
(* S = [lst_head, idx, conn_info, storages] of the variables of that name. *)
(***************************************************************************)
NoStorage == 0

\* the memory of a record that does not exist
NoConnInfo ==
    [storage               |-> NoStorage,
     cisd_lst_head         |-> <<>>,
     storage_type_exported |-> STORAGE_TYPE_ZERO,
     connection_exported   |-> NoConnection,
     loaded_path_etc       |-> None,
     loaded_path_run       |-> None]

conn_info_new(uuid) == NoConnInfo

RemoveFromList(list, u) == SelectSeq(list, LAMBDA v : v # u)

conn_info_destroy(S, u) ==
    LET ci == S.conn_info[u]
    IN  [S EXCEPT !.lst_head = RemoveFromList(S.lst_head, u),
                  !.storages = IF ci.storage # NoStorage
                               THEN [S.storages EXCEPT ![ci.storage] = None]
                               ELSE S.storages,
                  !.conn_info = [S.conn_info EXCEPT ![u] = NoConnInfo]]

conn_info_ensure_storage(S, u) ==
    LET ci == S.conn_info[u]
    IN  IF ci.storage = NoStorage /\ ci.connection_exported # NoConnection
        THEN [S EXCEPT !.storages = Append(S.storages, Some(u)),
                       !.conn_info = [S.conn_info EXCEPT ![u].storage = Len(S.storages) + 1]]
        ELSE S

\* a comparison that does not ignore any secret
conn_info_has_equal_connection_exact(ci, connection) ==
    /\ ci.connection_exported # NoConnection
    /\ connection = ci.connection_exported

\* a comparison that finds every connection changed
conn_info_has_equal_connection_never(ci, connection) == FALSE

conn_info_has_equal_connection(ci, connection) ==
    /\ ci.connection_exported # NoConnection
    /\ nm_connection_compare(connection, ci.connection_exported)

conn_infos_get(S, uuid) == uuid \in S.idx

\* an add that does not look the UUID up first
conn_infos_add_always(S, uuid) ==
    [S EXCEPT !.conn_info = [S.conn_info EXCEPT ![uuid] = conn_info_new(uuid)],
              !.idx = S.idx \cup {uuid},
              !.lst_head = Append(S.lst_head, uuid)]

\* an add that replaces the record of a UUID that has one by a new one
conn_infos_add_renew(S, uuid) ==
    [S EXCEPT !.conn_info = [S.conn_info EXCEPT ![uuid] = conn_info_new(uuid)],
              !.idx = S.idx \cup {uuid},
              !.lst_head = IF conn_infos_get(S, uuid) THEN S.lst_head
                           ELSE Append(S.lst_head, uuid)]

conn_infos_add(S, uuid) ==
    IF ~conn_infos_get(S, uuid)
    THEN [S EXCEPT !.conn_info = [S.conn_info EXCEPT ![uuid] = conn_info_new(uuid)],
                   !.idx = S.idx \cup {uuid},
                   !.lst_head = Append(S.lst_head, uuid)]
    ELSE S

\* a removal that leaves the record in the index
conn_infos_remove_keep(S, u) == S

\* g_hash_table_remove() calls the key destroy function _conn_info_destroy()
conn_infos_remove(S, u) ==
    conn_info_destroy([S EXCEPT !.idx = S.idx \ {u}], u)

Bundle == [lst_head |-> lst_head, idx |-> idx, conn_info |-> conn_info, storages |-> storages]


(***************************************************************************)
(* _load_dir()                                                             *)
(***************************************************************************)
\* names that end in the keyfile extension
ExtensionNames == FileNames
\* names of backup and temporary files
ExcludedNames == {"a.nmconnection~"}

\* nm_keyfile_utils_ignore_filename(): a name without the extension is ignored
\* when the extension is required; marker files are always ignored as keyfiles
nm_keyfile_utils_ignore_filename(filename, require_extension) ==
    \/ filename = ""
    \/ filename \in ExcludedNames
    \/ require_extension /\ filename \notin ExtensionNames

\* a filter that requires the extension in every directory
ignore_filename_require_extension(storage_type, filename) ==
    nm_keyfile_utils_ignore_filename(filename, TRUE)

ignore_filename(storage_type, filename) ==
    nm_keyfile_utils_ignore_filename(filename, storage_type # STORAGE_TYPE_ETC)

\* a reader that returns connections it could not verify
read_from_file_unverified(full_filename) ==
    IF full_filename \in DOMAIN files /\ files[full_filename].exists
    THEN Some([connection |-> files[full_filename].connection,
               uuid       |-> files[full_filename].uuid,
               st         |-> [mtime |-> files[full_filename].mtime,
                               ino   |-> StatIno(full_filename)]])
    ELSE None

\* _read_from_file(): None when the reader fails, else the connection and the stat
read_from_file(full_filename) ==
    IF full_filename \in DOMAIN files /\ files[full_filename].exists /\ files[full_filename].ok
    THEN Some([connection |-> files[full_filename].connection,
               uuid       |-> files[full_filename].uuid,
               st         |-> [mtime |-> files[full_filename].mtime,
                               ino   |-> StatIno(full_filename)]])
    ELSE None

\* an iteration that takes the marker of a read-only directory like one of /etc
load_dir_entry_any_marker(S, storage_priority, storage_type, dirname, e) ==
    IF e.kind = "nmloaded"
    THEN LET S1 == conn_infos_add(S, e.uuid)
         IN  IF storage_type = STORAGE_TYPE_RUN
             THEN [S1 EXCEPT !.conn_info[e.uuid].loaded_path_run = loaded[<<dirname, e.uuid>>]]
             ELSE [S1 EXCEPT !.conn_info[e.uuid].loaded_path_etc = loaded[<<dirname, e.uuid>>]]
    ELSE LET full_filename == Path(dirname, e.name)
             r == read_from_file(full_filename)
         IN  IF r = None
             THEN S
             ELSE LET S1 == conn_infos_add(S, r[1].uuid)
                      storage_data == conn_info_storage_data_new(storage_priority, storage_type,
                                                                 full_filename, r[1].connection, r[1].st)
                  IN  [S1 EXCEPT !.conn_info[r[1].uuid].cisd_lst_head = Append(@, storage_data)]

\* one iteration of the while loop of _load_dir()
load_dir_entry(S, storage_priority, storage_type, dirname, e) ==
    IF ignore_filename(storage_type, e.name)
    THEN IF e.kind # "nmloaded"
         THEN S
         ELSE IF storage_type \notin {STORAGE_TYPE_RUN, STORAGE_TYPE_ETC}
         THEN S
         ELSE LET S1 == conn_infos_add(S, e.uuid)
              IN  IF storage_type = STORAGE_TYPE_RUN
                  THEN [S1 EXCEPT !.conn_info[e.uuid].loaded_path_run = loaded[<<dirname, e.uuid>>]]
                  ELSE [S1 EXCEPT !.conn_info[e.uuid].loaded_path_etc = loaded[<<dirname, e.uuid>>]]
    ELSE LET full_filename == Path(dirname, e.name)
             r == read_from_file(full_filename)
         IN  IF r = None
             THEN S
             ELSE LET S1 == conn_infos_add(S, r[1].uuid)
                      storage_data == conn_info_storage_data_new(storage_priority, storage_type,
                                                                 full_filename, r[1].connection, r[1].st)
                  IN  [S1 EXCEPT !.conn_info[r[1].uuid].cisd_lst_head = Append(@, storage_data)]

\* a walk that ends at the first file the reader rejects
RECURSIVE load_dir_abort_on_failure(_, _, _, _, _)
load_dir_abort_on_failure(S, storage_priority, storage_type, dirname, order) ==
    IF Len(order) = 0
    THEN S
    ELSE IF /\ ~ignore_filename(storage_type, order[1].name)
            /\ read_from_file(Path(dirname, order[1].name)) = None
    THEN S
    ELSE load_dir_abort_on_failure(
             load_dir_entry(S, storage_priority, storage_type, dirname, order[1]),
             storage_priority, storage_type, dirname,
             [i \in 1..(Len(order) - 1) |-> order[i + 1]])

RECURSIVE load_dir(_, _, _, _, _)
load_dir(S, storage_priority, storage_type, dirname, order) ==
    IF Len(order) = 0
    THEN S
    ELSE load_dir(load_dir_entry(S, storage_priority, storage_type, dirname, order[1]),
                  storage_priority, storage_type, dirname,
                  [i \in 1..(Len(order) - 1) |-> order[i + 1]])

\* the for loop over priv->dirname_libs of _do_reload_all()
RECURSIVE load_dir_libs(_, _, _, _)
\* the loop with the read-only directories ranked from 1, the rank of /etc
load_dir_libs_rank_of_etc(S, libs, i, orders) ==
    IF i > Len(libs)
    THEN S
    ELSE load_dir_libs(load_dir(S, 1 + (i - 1), STORAGE_TYPE_LIB, libs[i], orders[i]),
                       libs, i + 1, orders)

load_dir_libs(S, libs, i, orders) ==
    IF i > Len(libs)
    THEN S
    ELSE load_dir_libs(load_dir(S, 2 + (i - 1), STORAGE_TYPE_LIB, libs[i], orders[i]),
                       libs, i + 1, orders)

\* lines 510-514: g_dir_open() of a directory; unreadable is the directory
\* that cannot be opened during this scan, if any
g_dir_open(dirname, unreadable) == unreadable # Some(dirname)

\* the entries _load_dir() gets to see: none when the directory does not open
g_dir_read_names(dirname, unreadable) ==
    IF g_dir_open(dirname, unreadable) THEN DirEntries(dirname) ELSE {}

\* the directories that can fail to open with an effect: those with entries
Unreadable == {Some(d) : d \in {dd \in Dirnames : DirEntries(dd) # {}}}

LibEnumerations(libs, unreadable) ==
    {f \in [1..Len(libs) ->
                UNION {Enumerations(g_dir_read_names(libs[i], unreadable)) :
                          i \in 1..Len(libs)}] :
        \A i \in 1..Len(libs) :
            f[i] \in Enumerations(g_dir_read_names(libs[i], unreadable))}

(***************************************************************************)
(* Initial state: nms_keyfile_plugin_init(), empty keyfile directories.    *)
(***************************************************************************)
NoLast ==
    [op |-> "none", path |-> None, ok |-> TRUE, out_storage |-> NoStorage, again |-> FALSE,
     unreadable |-> None, storage |-> NoStorage, error |-> None]

\* what is remembered of the state an operation started in, until it returns
Snapshot ==
    [storages |-> Len(storages),
     records  |-> [u \in UUIDs |->
                     [present               |-> u \in idx,
                      connection_exported   |-> conn_info[u].connection_exported,
                      storage_type_exported |-> conn_info[u].storage_type_exported,
                      storage               |-> conn_info[u].storage]]]

NoSnapshot ==
    [storages |-> 0,
     records  |-> [u \in UUIDs |->
                     [present               |-> FALSE,
                      connection_exported   |-> NoConnection,
                      storage_type_exported |-> STORAGE_TYPE_ZERO,
                      storage               |-> NoStorage]]]

\* no call of _path_detect_storage_type() on its own
NoDetect == <<>>

\* priv->monitors and the directories before _monitoring_setup() is looked at
NoMonitoring == <<>>

\* the keyfile directories are empty
EmptyDirectories ==
    /\ files = [p \in Slots |-> NoFile]
    /\ loaded = [k \in LoadedDirs \X UUIDs |-> None]
    /\ fsops = 0

nms_keyfile_plugin_init ==
    /\ lst_head = <<>>
    /\ idx = {}
    /\ conn_info = [u \in UUIDs |-> NoConnInfo]
    /\ filename_idx = {}
    /\ storages = <<>>
    /\ events = <<>>
    /\ pc = "idle"
    /\ todo = <<>>
    /\ events_del = <<>>
    /\ events_mod = <<>>
    /\ loaded_path = None
    /\ loaded_dirname = ""
    /\ loaded_path_masked = FALSE
    /\ st_loaded = None
    /\ last = NoLast
    /\ pre = NoSnapshot

Init ==
    /\ EmptyDirectories
    /\ nms_keyfile_plugin_init
    /\ detect = NoDetect
    /\ monitoring = NoMonitoring

(***************************************************************************)
(* The environment: other programs change the keyfile directories while no *)
(* operation of the plugin runs.                                           *)
(***************************************************************************)
FsChanged == last' = NoLast

\* a keyfile changed: when the index was up to date (a reload had just
\* returned), the change of this one file is what the file monitor reports
FileChanged(p) ==
    last' = IF last.op = "reloaded"
            THEN [NoLast EXCEPT !.op = "changed", !.path = Some(p)]
            ELSE NoLast

WriteFile(p, f) ==
    /\ pc = "idle"
    /\ fsops < MaxFsOps
    /\ files[p] # f
    /\ files' = [files EXCEPT ![p] = f]
    /\ fsops' = fsops + 1
    /\ FileChanged(p)
    /\ UNCHANGED <<loaded, lst_head, idx, conn_info, filename_idx, storages, events, pc, locals, pre>>
    /\ UNCHANGED detect
    /\ UNCHANGED monitoring

RemoveFile(p) ==
    /\ pc = "idle"
    /\ files[p].exists
    /\ files' = [files EXCEPT ![p] = NoFile]
    /\ FileChanged(p)
    /\ UNCHANGED <<fsops, loaded, lst_head, idx, conn_info, filename_idx, storages, events, pc, locals, pre>>
    /\ UNCHANGED detect
    /\ UNCHANGED monitoring

WriteLoaded(d, u, t) ==
    /\ pc = "idle"
    /\ fsops < MaxFsOps
    /\ loaded[<<d, u>>] # Some(t)
    /\ loaded' = [loaded EXCEPT ![<<d, u>>] = Some(t)]
    /\ fsops' = fsops + 1
    /\ FsChanged
    /\ UNCHANGED <<files, lst_head, idx, conn_info, filename_idx, storages, events, pc, locals, pre>>
    /\ UNCHANGED detect
    /\ UNCHANGED monitoring

RemoveLoaded(d, u) ==
    /\ pc = "idle"
    /\ loaded[<<d, u>>] # None
    /\ loaded' = [loaded EXCEPT ![<<d, u>>] = None]
    /\ FsChanged
    /\ UNCHANGED <<fsops, files, lst_head, idx, conn_info, filename_idx, storages, events, pc, locals, pre>>
    /\ UNCHANGED detect
    /\ UNCHANGED monitoring


(***************************************************************************)
(* _do_reload_all()                                                        *)
(***************************************************************************)
\* a scan that keeps the list of the scan before
conn_info_storage_data_destroy_all_keep(ci) == ci

\* lines 307-314, called at 586-587 for every record
conn_info_storage_data_destroy_all(ci) == [ci EXCEPT !.cisd_lst_head = <<>>]

\* lines 582-592: forget the last scan, read the directories
do_reload_all_load(libs, unreadable) ==
    /\ pc = "idle"
    /\ Len(storages) + Cardinality(UUIDs) <= MaxStorages
    /\ \E o_run \in Enumerations(g_dir_read_names(dirname_run, unreadable)),
          o_etc \in Enumerations(g_dir_read_names(dirname_etc, unreadable)),
          o_libs \in LibEnumerations(libs, unreadable) :
          LET S0 == [Bundle EXCEPT !.conn_info =
                        [u \in UUIDs |-> conn_info_storage_data_destroy_all(conn_info[u])]]
              S1 == load_dir(S0, 0, STORAGE_TYPE_RUN, dirname_run, o_run)
              S2 == load_dir(S1, 1, STORAGE_TYPE_ETC, dirname_etc, o_etc)
              S3 == load_dir_libs(S2, libs, 1, o_libs)
          IN  /\ lst_head' = S3.lst_head
              /\ idx' = S3.idx
              /\ conn_info' = S3.conn_info
              /\ storages' = S3.storages
              /\ todo' = S3.lst_head
              /\ pc' = IF S3.lst_head = <<>> THEN "emit" ELSE "loaded_path"
              /\ last' = [NoLast EXCEPT !.op = "reload_all",
                                         !.again = (last.op = "reloaded"),
                                         !.path = IF last.op = "loaded" THEN last.path ELSE None,
                                         !.unreadable = unreadable]
    /\ filename_idx' = {}
    /\ events' = <<>>
    /\ events_del' = <<>>
    /\ events_mod' = <<>>
    /\ loaded_path' = None
    /\ loaded_dirname' = ""
    /\ loaded_path_masked' = FALSE
    /\ st_loaded' = None
    /\ pre' = Snapshot
    /\ UNCHANGED fsvars
    /\ UNCHANGED detect
    /\ UNCHANGED monitoring

\* the loaded-path of /etc taken before the one of /run
steal_loaded_path_etc_first(ci) ==
    IF ci.loaded_path_etc # None
    THEN [loaded_dirname |-> dirname_etc, loaded_path |-> ci.loaded_path_etc]
    ELSE IF ci.loaded_path_run # None
    THEN [loaded_dirname |-> dirname_run, loaded_path |-> ci.loaded_path_run]
    ELSE [loaded_dirname |-> "", loaded_path |-> None]

\* lines 601-617: find and steal the loaded-path (if any)
steal_loaded_path(ci) ==
    IF ci.loaded_path_run # None
    THEN [loaded_dirname |-> dirname_run, loaded_path |-> ci.loaded_path_run]
    ELSE IF ci.loaded_path_etc # None
    THEN [loaded_dirname |-> dirname_etc, loaded_path |-> ci.loaded_path_etc]
    ELSE [loaded_dirname |-> "", loaded_path |-> None]

\* the record after g_steal_pointer() of the loaded-path that is taken only:
\* the loaded-path of /etc stays when the one of /run shadows it
clear_loaded_path_taken_only(ci) ==
    IF ci.loaded_path_run # None
    THEN [ci EXCEPT !.loaded_path_run = None]
    ELSE [ci EXCEPT !.loaded_path_etc = None]

\* lines 602-617: nm_clear_g_free() of the shadowed loaded-path of /etc and
\* g_steal_pointer() of the one that is taken
clear_loaded_path(ci) ==
    [ci EXCEPT !.loaded_path_run = None, !.loaded_path_etc = None]

\* line 623: the loaded-path is the masking target
\* a reload that takes the masking target for an ordinary path
is_masking_never(path) == FALSE

is_masking(path) == path # None /\ path[1] = NM_KEYFILE_PATH_NMLOADED_NULL

\* lines 601-634 for the record the loop is at: steal the loaded-path, sort,
\* and enter _conn_info_storage_data_prioritize_loaded() up to its loop
do_reload_all_loaded_path ==
    /\ pc = "loaded_path"
    /\ LET u == Head(todo)
           ci == conn_info[u]
           path == steal_loaded_path(ci).loaded_path
           dirname == steal_loaded_path(ci).loaded_dirname
           masked == is_masking(path)
           st == IF path # None /\ ~masked /\ path[1].abs THEN stat(path[1]) ELSE None
       IN  /\ conn_info' = [conn_info EXCEPT ![u] =
                               [clear_loaded_path(ci) EXCEPT !.cisd_lst_head = c_list_sort(@)]]
           /\ loaded_dirname' = dirname
           /\ loaded_path_masked' = masked
           /\ st_loaded' = st
           /\ loaded_path' = IF st = None THEN None ELSE path
           /\ pc' = IF st = None THEN "export" ELSE "prioritize"
    /\ UNCHANGED <<fsvars, lst_head, idx, filename_idx, storages, events, todo,
                   events_del, events_mod, last, pre>>
    /\ UNCHANGED detect
    /\ UNCHANGED monitoring

\* c_list_unlink_stale() and c_list_link_front() of the entry at position k
MoveToFront(list, k) ==
    <<list[k]>> \o SubSeq(list, 1, k - 1) \o SubSeq(list, k + 1, Len(list))

\* lines 360-370: one evaluation of the while loop of
\* _conn_info_storage_data_prioritize_loaded(); c_list_first_entry() is the
\* first entry of the list every time
conn_info_storage_data_prioritize_loaded ==
    /\ pc = "prioritize"
    /\ LET u == Head(todo)
           list == conn_info[u].cisd_lst_head
       IN  IF list = <<>>
           THEN \* return FALSE
                /\ loaded_path' = None
                /\ pc' = "export"
                /\ UNCHANGED conn_info
           ELSE IF list[1].stat_ino = st_loaded[1]
           THEN \* return TRUE
                /\ conn_info' = [conn_info EXCEPT ![u].cisd_lst_head = MoveToFront(list, 1)]
                /\ pc' = "export"
                /\ UNCHANGED loaded_path
           ELSE \* the loop looks at the same first entry again
                UNCHANGED <<conn_info, loaded_path, pc>>
    /\ UNCHANGED <<fsvars, lst_head, idx, filename_idx, storages, events, todo,
                   events_del, events_mod, loaded_dirname, loaded_path_masked,
                   st_loaded, last, pre>>
    /\ UNCHANGED detect
    /\ UNCHANGED monitoring

\* an index that keeps one file per record only
filename_idx_insert_one_per_record(tbl, full_filename, u) ==
    IF \E e \in tbl : e[2] = u THEN tbl ELSE tbl \cup {<<full_filename, u>>}

\* nm_g_hash_table_insert() into filename_idx
filename_idx_insert(tbl, full_filename, u) ==
    {e \in tbl : e[1] # full_filename} \cup {<<full_filename, u>>}

RECURSIVE filename_idx_insert_all(_, _, _)
filename_idx_insert_all(tbl, list, u) ==
    IF list = <<>> THEN tbl
    ELSE filename_idx_insert_all(filename_idx_insert(tbl, list[1].full_filename, u),
                                 Tail(list), u)

\* line 636: the record exports an in-memory connection
\* a reload that does not tell in-memory connections from keyfiles
is_in_memory_never(ci) == FALSE

is_in_memory(ci) == ci.storage_type_exported = STORAGE_TYPE_MEM

\* lines 636-755 for the record the loop is at
do_reload_all_export ==
    /\ pc = "export"
    /\ LET u == Head(todo)
           ci == conn_info[u]
           is_mem == is_in_memory(ci)
           sd_best == IF ci.cisd_lst_head = <<>> THEN None ELSE Some(ci.cisd_lst_head[1])
           no_best == ~is_mem /\ (sd_best = None \/ loaded_path_masked)
           removed == no_best /\ ci.cisd_lst_head = <<>>
           modified == /\ ~is_mem
                       /\ ~no_best
                       /\ ~conn_info_has_equal_connection(ci, sd_best[1].connection)
           ci1 == IF is_mem THEN ci
                  ELSE IF no_best
                  THEN [ci EXCEPT !.connection_exported = NoConnection,
                                  !.storage = NoStorage]
                  ELSE [ci EXCEPT !.storage_type_exported = sd_best[1].storage_type,
                                  !.connection_exported =
                                      IF modified THEN sd_best[1].connection ELSE @]
           S1 == IF removed
                 THEN conn_infos_remove(Bundle, u)
                 ELSE conn_info_ensure_storage([Bundle EXCEPT !.conn_info[u] = ci1], u)
           S2 == IF removed
                 THEN S1
                 ELSE [S1 EXCEPT !.conn_info[u].cisd_lst_head =
                          [i \in DOMAIN @ |-> [@[i] EXCEPT !.connection = NoConnection]]]
       IN  /\ lst_head' = S2.lst_head
           /\ idx' = S2.idx
           /\ conn_info' = S2.conn_info
           /\ storages' = S2.storages
           /\ events_del' = IF no_best /\ ci.connection_exported # NoConnection
                            THEN Append(events_del, [uuid |-> u, storage |-> ci.storage])
                            ELSE events_del
           /\ events_mod' = IF modified THEN Append(events_mod, u) ELSE events_mod
           /\ filename_idx' = IF removed THEN filename_idx
                              ELSE filename_idx_insert_all(filename_idx, ci.cisd_lst_head, u)
           /\ todo' = Tail(todo)
           /\ pc' = IF Tail(todo) = <<>> THEN "emit" ELSE "loaded_path"
    /\ loaded_path' = None
    /\ loaded_dirname' = ""
    /\ loaded_path_masked' = FALSE
    /\ st_loaded' = None
    /\ UNCHANGED <<fsvars, events, last, pre>>
    /\ UNCHANGED detect
    /\ UNCHANGED monitoring

\* the signal _nm_settings_plugin_emit_signal_connection_changed()
Signal(uuid, storage, connection) ==
    [uuid |-> uuid, storage |-> storage, connection |-> connection]

RECURSIVE emit_events_del(_)
emit_events_del(q) ==
    IF q = <<>> THEN <<>>
    ELSE <<Signal(q[1].uuid, q[1].storage, NoConnection)>> \o emit_events_del(Tail(q))

RECURSIVE emit_events_mod(_)
emit_events_mod(q) ==
    IF q = <<>> THEN <<>>
    ELSE (IF conn_infos_get(Bundle, q[1]) /\ conn_info[q[1]].connection_exported # NoConnection
          THEN <<Signal(q[1], conn_info[q[1]].storage, conn_info[q[1]].connection_exported)>>
          ELSE <<>>)
         \o emit_events_mod(Tail(q))

\* the add/modify signals raised before the removals
raise_events_mod_first(del, mod) == emit_events_mod(mod) \o emit_events_del(del)

\* lines 757-783: the loop over events_del, then the loop over events_mod
raise_events(del, mod) == emit_events_del(del) \o emit_events_mod(mod)

\* lines 757-783: raise events
do_reload_all_emit ==
    /\ pc = "emit"
    /\ events' = raise_events(events_del, events_mod)
    /\ events_del' = <<>>
    /\ events_mod' = <<>>
    /\ pc' = "done"
    /\ UNCHANGED <<fsvars, lst_head, idx, conn_info, filename_idx, storages, todo,
                   loaded_path, loaded_dirname, loaded_path_masked, st_loaded, last, pre>>
    /\ UNCHANGED detect
    /\ UNCHANGED monitoring


(***************************************************************************)
(* _path_detect_storage_type()                                             *)
(***************************************************************************)
\* nm_utils_file_is_in_path(): the file name when the file is directly in the directory
nm_utils_file_is_in_path(full_filename, dirname) ==
    IF full_filename.abs /\ full_filename.dir = dirname THEN Some(full_filename.name) ELSE None

\* return FALSE with the GError set; the out parameters are not written
DetectFailed(error) ==
    [ok |-> FALSE, storage_type |-> STORAGE_TYPE_ZERO, dirname |-> "", filename |-> "",
     error |-> error]

\* return TRUE
DetectFound(storage_type, dirname, filename) ==
    [ok |-> TRUE, storage_type |-> storage_type, dirname |-> dirname, filename |-> filename,
     error |-> ""]

\* the first directory of libs[i..] the file is in, or 0
RECURSIVE FirstLibMatch(_, _, _)
FirstLibMatch(full_filename, libs, i) ==
    IF i > Len(libs) THEN 0
    ELSE IF nm_utils_file_is_in_path(full_filename, libs[i]) # None THEN i
    ELSE FirstLibMatch(full_filename, libs, i + 1)

\* a classifier that looks at the /etc directory before the /run directory
path_detect_storage_type_etc_first(full_filename, libs, etc, run) ==
    LET found ==
            IF etc # None /\ nm_utils_file_is_in_path(full_filename, etc[1]) # None
            THEN DetectFound(STORAGE_TYPE_ETC, etc[1], full_filename.name)
            ELSE IF run # None /\ nm_utils_file_is_in_path(full_filename, run[1]) # None
            THEN DetectFound(STORAGE_TYPE_RUN, run[1], full_filename.name)
            ELSE LET i == FirstLibMatch(full_filename, libs, 1)
                 IN  IF i # 0
                     THEN DetectFound(STORAGE_TYPE_LIB, libs[i], full_filename.name)
                     ELSE DetectFailed("filename is not inside a keyfile directory")
    IN  IF ~full_filename.abs THEN DetectFailed("filename is not an absolute path")
        ELSE IF ~found.ok THEN found
        ELSE IF ignore_filename(found.storage_type, found.filename)
        THEN DetectFailed("filename is not a valid keyfile")
        ELSE found

\* libs is a sequence of directories, etc and run are None or Some(directory)
path_detect_storage_type(full_filename, libs, etc, run) ==
    LET found ==
            IF run # None /\ nm_utils_file_is_in_path(full_filename, run[1]) # None
            THEN DetectFound(STORAGE_TYPE_RUN, run[1], full_filename.name)
            ELSE IF etc # None /\ nm_utils_file_is_in_path(full_filename, etc[1]) # None
            THEN DetectFound(STORAGE_TYPE_ETC, etc[1], full_filename.name)
            ELSE LET i == FirstLibMatch(full_filename, libs, 1)
                 IN  IF i # 0
                     THEN DetectFound(STORAGE_TYPE_LIB, libs[i], full_filename.name)
                     ELSE DetectFailed("filename is not inside a keyfile directory")
    IN  IF ~full_filename.abs THEN DetectFailed("filename is not an absolute path")
        ELSE IF ~found.ok THEN found
        ELSE IF ignore_filename(found.storage_type, found.filename)
        THEN DetectFailed("filename is not a valid keyfile")
        ELSE found

(***************************************************************************)
(* _path_detect_storage_type() on its own: every call with a path and a    *)
(* set of directories, as the function's parameters allow them (a          *)
(* directory may be NULL, and one directory may be passed twice).          *)
(***************************************************************************)
dirname_other == "/tmp"

DetectNames == {FileNameOrder[1], "a"} \cup ExcludedNames

DetectPaths ==
    {Path(d, n) : d \in Dirnames \cup {dirname_lib2, dirname_other}, n \in DetectNames}
    \cup {[RelativePath EXCEPT !.name = n] : n \in DetectNames}

DetectLibDirs == {dirname_libs[1], dirname_lib2, dirname_etc}
DetectLibs == UNION {[1..n -> DetectLibDirs] : n \in 0..MaxLibs}
DetectEtc == {None, Some(dirname_etc), Some(dirname_run)}
DetectRun == {None, Some(dirname_run)}

\* the value of an out parameter's variable before the call
Unset == "unset"

DetectCalls ==
    {[full_filename    |-> f,
      dirname_libs     |-> l,
      dirname_etc      |-> e,
      dirname_run      |-> r,
      returned         |-> FALSE,
      ok               |-> FALSE,
      error            |-> "",
      out_storage_type |-> Unset,
      out_dirname      |-> Unset,
      out_filename     |-> Unset] :
        f \in DetectPaths, l \in DetectLibs, e \in DetectEtc, r \in DetectRun}

DetectInit ==
    /\ EmptyDirectories
    /\ nms_keyfile_plugin_init
    /\ detect \in DetectCalls
    /\ monitoring = NoMonitoring

\* the call: NM_SET_OUT() writes the out parameters only before return TRUE
path_detect_storage_type_call ==
    /\ detect # NoDetect
    /\ ~detect.returned
    /\ LET r == path_detect_storage_type(detect.full_filename, detect.dirname_libs,
                                         detect.dirname_etc, detect.dirname_run)
       IN  detect' = [detect EXCEPT !.returned = TRUE,
                                    !.ok = r.ok,
                                    !.error = r.error,
                                    !.out_storage_type = IF r.ok THEN r.storage_type ELSE @,
                                    !.out_dirname = IF r.ok THEN r.dirname ELSE @,
                                    !.out_filename = IF r.ok THEN r.filename ELSE @]
    /\ UNCHANGED <<fsvars, lst_head, idx, conn_info, filename_idx, storages, events, pc,
                   locals, last, pre>>
    /\ UNCHANGED monitoring

DetectNext == path_detect_storage_type_call

DetectSpec == DetectInit /\ [][DetectNext]_vars

(***************************************************************************)
(* _do_load_connection()                                                   *)
(***************************************************************************)
\* the paths load_connection() is called with
\* a path in /run whose file name lacks the keyfile extension
RejectedPath == Path(dirname_run, "a")

LoadPaths == Slots \cup {RelativePath, NM_KEYFILE_PATH_NMLOADED_NULL, RejectedPath}

\* a load that leaves the storage type of an in-memory connection
storage_type_loaded_keep_in_memory(ci, storage_type) ==
    IF ci.storage_type_exported = STORAGE_TYPE_MEM THEN STORAGE_TYPE_MEM ELSE storage_type

\* line 827: an explicit load can also replace an in-memory connection
storage_type_loaded(ci, storage_type) == storage_type

do_load_connection(full_filename) ==
    /\ pc = "idle"
    /\ Len(storages) < MaxStorages
    /\ pre' = Snapshot
    /\ LET d == path_detect_storage_type(full_filename, dirname_libs,
                                         Some(dirname_etc), Some(dirname_run))
           r == IF d.ok THEN read_from_file(full_filename) ELSE None
       IN  IF r = None
           THEN \* return FALSE
                /\ events' = <<>>
                /\ last' = [NoLast EXCEPT !.op = "load_connection",
                                           !.path = Some(full_filename),
                                           !.ok = FALSE]
                /\ UNCHANGED <<fsvars, lst_head, idx, conn_info, filename_idx, storages>>
           ELSE LET uuid == r[1].uuid
                    connection == r[1].connection
                    S1 == conn_infos_add(Bundle, uuid)
                    modified == ~conn_info_has_equal_connection(S1.conn_info[uuid], connection)
                    S2 == [S1 EXCEPT !.conn_info[uuid].storage_type_exported =
                                         storage_type_loaded(S1.conn_info[uuid], d.storage_type)]
                    S3 == conn_info_ensure_storage(S2, uuid)
                    out_storage == S3.conn_info[uuid].storage
                    S4 == IF modified
                          THEN [S3 EXCEPT !.conn_info[uuid].connection_exported = connection]
                          ELSE S3
                IN  /\ \E loaded_uuid_success \in BOOLEAN :
                           loaded' = IF loaded_uuid_success
                                     THEN [loaded EXCEPT ![<<dirname_run, uuid>>] =
                                              Some(full_filename)]
                                     ELSE loaded
                    /\ lst_head' = S4.lst_head
                    /\ idx' = S4.idx
                    /\ conn_info' = S4.conn_info
                    /\ storages' = S4.storages
                    /\ events' = IF modified
                                 THEN <<Signal(uuid, S4.conn_info[uuid].storage,
                                               S4.conn_info[uuid].connection_exported)>>
                                 ELSE <<>>
                    /\ last' = [NoLast EXCEPT !.op = "load_connection",
                                               !.path = Some(full_filename),
                                               !.out_storage = out_storage]
                    /\ UNCHANGED <<files, fsops, filename_idx>>
    /\ pc' = "done"
    /\ UNCHANGED locals
    /\ UNCHANGED detect
    /\ UNCHANGED monitoring

(***************************************************************************)
(* _monitoring_dir_changed(): the "changed" callback of a directory's      *)
(* GFileMonitor, for the one file that changed since the last reload.      *)
(***************************************************************************)
G_FILE_MONITOR_EVENT_DELETED == "DELETED"
G_FILE_MONITOR_EVENT_CREATED == "CREATED"
G_FILE_MONITOR_EVENT_CHANGES_DONE_HINT == "CHANGES_DONE_HINT"

\* the events the monitor reports for the file as it is now
EventTypes(p) ==
    IF files[p].exists
    THEN {G_FILE_MONITOR_EVENT_CREATED, G_FILE_MONITOR_EVENT_CHANGES_DONE_HINT}
    ELSE {G_FILE_MONITOR_EVENT_DELETED}

\* lines 1237-1289: the path is classified, the file read and the record
\* looked up in filename_idx; every case of the switch is empty
monitoring_dir_changed(full_filename, event_type) ==
    /\ pc = "idle"
    /\ last.op = "changed"
    /\ last.path = Some(full_filename)
    /\ LET d == path_detect_storage_type(full_filename, dirname_libs,
                                         Some(dirname_etc), Some(dirname_run))
           connection == IF d.ok THEN read_from_file(full_filename) ELSE None
           ci == {e \in filename_idx : e[1] = full_filename}
       IN  IF ~d.ok
           THEN UNCHANGED <<lst_head, idx, conn_info, filename_idx, storages, events>>
           ELSE IF event_type = G_FILE_MONITOR_EVENT_DELETED
           THEN UNCHANGED <<lst_head, idx, conn_info, filename_idx, storages, events>>
           ELSE IF event_type \in {G_FILE_MONITOR_EVENT_CREATED,
                                   G_FILE_MONITOR_EVENT_CHANGES_DONE_HINT}
           THEN UNCHANGED <<lst_head, idx, conn_info, filename_idx, storages, events>>
           ELSE UNCHANGED <<lst_head, idx, conn_info, filename_idx, storages, events>>
    /\ last' = [NoLast EXCEPT !.op = "dir_changed", !.path = Some(full_filename)]
    /\ UNCHANGED <<fsvars, pc, locals, pre>>
    /\ UNCHANGED detect
    /\ UNCHANGED monitoring

\* the operation has returned and its caller has seen the signals
Return ==
    /\ pc = "done"
    /\ pc' = "idle"
    /\ events' = <<>>
    /\ pre' = NoSnapshot
    /\ last' = IF last.op = "reload_all" THEN [NoLast EXCEPT !.op = "reloaded"]
               ELSE IF last.op = "load_connection" /\ last.ok
               THEN [NoLast EXCEPT !.op = "loaded", !.path = last.path]
               ELSE NoLast
    /\ UNCHANGED <<fsvars, lst_head, idx, conn_info, filename_idx, storages, locals>>
    /\ UNCHANGED detect
    /\ UNCHANGED monitoring

(***************************************************************************)
(* A profile that a caller keeps in memory only: the record of its UUID    *)
(* exports the caller's connection with storage type MEM.                  *)
(***************************************************************************)
add_in_memory(uuid, connection) ==
    /\ pc = "idle"
    /\ Len(storages) < MaxStorages
    /\ ~conn_infos_get(Bundle, uuid)
    /\ LET S1 == conn_infos_add(Bundle, uuid)
           S2 == [S1 EXCEPT !.conn_info[uuid].storage_type_exported = STORAGE_TYPE_MEM,
                            !.conn_info[uuid].connection_exported = connection]
           S3 == conn_info_ensure_storage(S2, uuid)
       IN  /\ lst_head' = S3.lst_head
           /\ idx' = S3.idx
           /\ conn_info' = S3.conn_info
           /\ storages' = S3.storages
    /\ last' = NoLast
    /\ UNCHANGED <<fsvars, filename_idx, events, pc, locals, pre>>
    /\ UNCHANGED detect
    /\ UNCHANGED monitoring

(***************************************************************************)
(* commit_changes(), delete() and add_connection().  The caller hands in a *)
(* storage: NULL, a storage of another plugin, or one of the storages this *)
(* plugin has created, which the caller may have kept from a signal.       *)
(***************************************************************************)
ForeignStorage == -1
StorageArgs == {NoStorage, ForeignStorage} \cup DOMAIN storages

MissingStorage == "Missing storage for keyfile"

\* a lookup that fails without setting the error
conn_info_from_storage_no_error(storage) ==
    IF storage \in DOMAIN storages /\ storages[storage] # None
    THEN [conn_info |-> storages[storage], error |-> None]
    ELSE [conn_info |-> None, error |-> None]

\* lines 416-432: the record is the back-link of a storage of this plugin
conn_info_from_storage(storage) ==
    IF storage \in DOMAIN storages /\ storages[storage] # None
    THEN [conn_info |-> storages[storage], error |-> None]
    ELSE [conn_info |-> None, error |-> Some(MissingStorage)]

\* lines 869-941: the body is compiled out, the function returns TRUE
do_commit_changes(uuid) == TRUE

\* lines 943-950
do_delete(uuid) == FALSE

\* lines 952-977: the body is compiled out, the function returns FALSE
do_add_connection(connection, save_to_disk) == FALSE

\* what an operation that changes nothing of the plugin leaves alone
HandleUnchanged ==
    /\ pc = "idle"
    /\ pc' = "done"
    /\ events' = <<>>
    /\ pre' = Snapshot
    /\ UNCHANGED <<fsvars, lst_head, idx, conn_info, filename_idx, storages, locals>>
    /\ UNCHANGED detect
    /\ UNCHANGED monitoring

\* lines 1392-1414
commit_changes(storage) ==
    /\ LET r == conn_info_from_storage(storage)
       IN  last' = [NoLast EXCEPT !.op = "commit_changes",
                                  !.storage = storage,
                                  !.error = r.error,
                                  !.ok = IF r.conn_info = None
                                         THEN FALSE
                                         ELSE do_commit_changes(r.conn_info[1])]
    /\ HandleUnchanged

\* lines 1416-1428
delete(storage) ==
    /\ LET r == conn_info_from_storage(storage)
       IN  last' = [NoLast EXCEPT !.op = "delete",
                                  !.storage = storage,
                                  !.error = r.error,
                                  !.ok = IF r.conn_info = None
                                         THEN FALSE
                                         ELSE do_delete(r.conn_info[1])]
    /\ HandleUnchanged

\* lines 1376-1390
add_connection(connection, save_to_disk) ==
    /\ last' = [NoLast EXCEPT !.op = "add_connection",
                              !.ok = do_add_connection(connection, save_to_disk)]
    /\ HandleUnchanged

(***************************************************************************)
(* The specification.                                                      *)
(***************************************************************************)
Environment ==
    \/ \E p \in Slots : \E f \in KeyfilesAt(p) : WriteFile(p, f)
    \/ \E p \in Slots : RemoveFile(p)
    \/ \E d \in LoadedDirs, u \in LoadedUUIDs : \E t \in LoadedTargets(d) : WriteLoaded(d, u, t)
    \/ \E d \in LoadedDirs, u \in UUIDs : RemoveLoaded(d, u)

do_reload_all ==
    \/ do_reload_all_load(dirname_libs, None)
    \/ do_reload_all_loaded_path
    \/ conn_info_storage_data_prioritize_loaded
    \/ do_reload_all_export
    \/ do_reload_all_emit

Next ==
    \/ Environment
    \/ do_reload_all
    \/ \E p \in LoadPaths : do_load_connection(p)
    \/ \E u \in MemUUIDs, c \in MemConnections : add_in_memory(u, c)
    \/ \E p \in Slots : \E t \in EventTypes(p) : monitoring_dir_changed(p, t)
    \/ Return

Spec == Init /\ [][Next]_vars

\* the same with reloads during which one of the keyfile directories cannot
\* be opened
AccessNext ==
    \/ Next
    \/ \E unreadable \in Unreadable : do_reload_all_load(dirname_libs, unreadable)

AccessSpec == Init /\ [][AccessNext]_vars

\* the same as Spec with the operations that take a storage, and add_connection()
StorageNext ==
    \/ Next
    \/ \E storage \in StorageArgs : commit_changes(storage)
    \/ \E storage \in StorageArgs : delete(storage)
    \/ \E c \in MemConnections, save_to_disk \in BOOLEAN : add_connection(c, save_to_disk)

StorageSpec == Init /\ [][StorageNext]_vars

(***************************************************************************)
(* _do_reload_all() with two read-only directories in priv->dirname_libs   *)
(* (the struct's comment, lines 121-130), and keyfiles in them only.       *)
(***************************************************************************)
LibsConfig == <<dirname_libs[1], dirname_lib2>>

LibsSlot1 == Path(LibsConfig[1], FileNameOrder[1])
LibsSlot2a == Path(LibsConfig[2], FileNameOrder[1])
LibsSlot2b == Path(LibsConfig[2], FileNameOrder[2])
LibsSlots == {LibsSlot1, LibsSlot2a, LibsSlot2b}

\* the keyfiles at each place when the plugin starts
LibsKeyfilesAt(p) ==
    IF p = LibsSlot1 THEN {NoFile, Keyfile("X", <<1, 0>>, <<2, 0>>)}
    ELSE IF p = LibsSlot2a THEN {NoFile,
                                 Keyfile("X", <<2, 0>>, <<1, 1>>),
                                 Keyfile("X", <<2, 0>>, <<2, 1>>),
                                 Keyfile("Y", <<1, 0>>, <<2, 0>>)}
    ELSE {NoFile, Keyfile("X", <<3, 0>>, <<2, 0>>), Keyfile("Y", <<2, 0>>, <<2, 0>>)}

\* what the ".nmloaded" marker of X in the first read-only directory points to
LibsLoadedTargets == {None, Some(NM_KEYFILE_PATH_NMLOADED_NULL), Some(LibsSlot2a)}

LibsInit ==
    /\ files \in {f \in [LibsSlots -> UNION {LibsKeyfilesAt(p) : p \in LibsSlots}] :
                      \A p \in LibsSlots : f[p] \in LibsKeyfilesAt(p)}
    /\ loaded \in {[k \in (LoadedDirs \cup {LibsConfig[1]}) \X UUIDs |->
                        IF k = <<LibsConfig[1], "X">> THEN t ELSE None] :
                    t \in LibsLoadedTargets}
    /\ fsops = 0
    /\ nms_keyfile_plugin_init
    /\ detect = NoDetect
    /\ monitoring = NoMonitoring

LibsNext ==
    \/ do_reload_all_load(LibsConfig, None)
    \/ do_reload_all_loaded_path
    \/ do_reload_all_export
    \/ do_reload_all_emit
    \/ Return

LibsSpec == LibsInit /\ [][LibsNext]_vars

(***************************************************************************)
(* _monitoring_setup() and _monitoring_clear().  priv->dirname_libs is     *)
(* unset (NULL) or a NULL-terminated list, priv->dirname_etc can be unset. *)
(* `local' is the array that _monitoring_setup() fills, `monitors' is      *)
(* priv->monitors, `active' the monitors that are connected and were not   *)
(* cancelled.  A read behind the terminator of dirname_libs and a write    *)
(* behind the allocated array are undefined: the read gives NULL or a      *)
(* pointer that is no configured directory, or the process ends; with the  *)
(* write the model stops.                                                  *)
(***************************************************************************)
MonitoringLibs == {None} \cup {Some(SubSeq(LibsConfig, 1, n)) : n \in 0..Len(LibsConfig)}

GarbageDirname == "(behind the end of dirname_libs)"

NM_PTRARRAY_LEN(array) == IF array = None THEN 0 ELSE Len(array[1])

MonitoringInit ==
    /\ EmptyDirectories
    /\ nms_keyfile_plugin_init
    /\ detect = NoDetect
    /\ monitoring \in {[pc           |-> "idle",
                         dirname_libs |-> libs,
                         dirname_etc  |-> etc,
                         dirname_run  |-> Some(dirname_run),
                         enabled      |-> enabled,
                         i            |-> 0,
                         j            |-> 0,
                         size         |-> 0,
                         local        |-> <<>>,
                         monitors     |-> None,
                         active       |-> {}] :
                            libs \in MonitoringLibs,
                            etc \in {None, Some(dirname_etc)},
                            enabled \in BOOLEAN}

\* lines 1308-1325: NULL for an unset directory and when
\* g_file_monitor_directory() fails, else a monitor that is connected
monitoring_setup_one(dirname, created) ==
    IF dirname = None THEN None
    ELSE IF created THEN Some(dirname[1])
    ELSE None

\* the number of entries of the array before its first NULL
RECURSIVE MonitorsUntilNull(_)
MonitorsUntilNull(array) ==
    IF array = <<>> \/ Head(array) = None THEN 0
    ELSE 1 + MonitorsUntilNull(Tail(array))

\* lines 1291-1306: disconnect and cancel the entries up to the first NULL,
\* free the array
monitoring_clear(m) ==
    IF m.monitors = None THEN m
    ELSE LET array == m.monitors[1]
             n == MonitorsUntilNull(array)
         IN  [m EXCEPT !.active = @ \ {array[k][1] : k \in 1..n},
                       !.monitors = None]

MonitoringUnchanged ==
    UNCHANGED <<fsvars, lst_head, idx, conn_info, filename_idx, storages, events, pc,
                locals, last, pre, detect>>

\* lines 1334-1342: clear, return if monitoring is disabled, allocate
monitoring_setup_begin ==
    /\ monitoring # NoMonitoring
    /\ monitoring.pc \in {"idle", "done"}
    /\ LET m == monitoring_clear(monitoring)
       IN  monitoring' =
               IF ~m.enabled
               THEN [m EXCEPT !.pc = "done"]
               ELSE [m EXCEPT !.pc = IF m.dirname_libs # None THEN "libs" ELSE "rest",
                              !.i = 0,
                              !.j = 0,
                              !.size = NM_PTRARRAY_LEN(m.dirname_libs) + 3,
                              !.local = <<>>]
    /\ MonitoringUnchanged

\* lines 1343-1344: one pass of the for loop, whose condition is
\* priv->dirname_libs, not priv->dirname_libs[i]
monitoring_setup_libs(behind, created) ==
    /\ monitoring # NoMonitoring
    /\ monitoring.pc = "libs"
    /\ LET m == monitoring
           n == NM_PTRARRAY_LEN(m.dirname_libs)
           dirname == IF m.i < n THEN Some(m.dirname_libs[1][m.i + 1])
                      ELSE IF m.i = n THEN None
                      ELSE behind
           monitor == monitoring_setup_one(dirname, created)
       IN  monitoring' =
               IF m.i > n /\ behind = Some("crash")
               THEN [m EXCEPT !.pc = "crashed"]
               ELSE IF m.j >= m.size
               THEN [m EXCEPT !.pc = "overrun"]
               ELSE [m EXCEPT !.local = Append(@, monitor),
                              !.active = IF monitor = None THEN @ ELSE @ \cup {monitor[1]},
                              !.i = @ + 1,
                              !.j = @ + 1]
    /\ MonitoringUnchanged

\* lines 1346-1351
monitoring_setup_rest(created_etc, created_run) ==
    /\ monitoring # NoMonitoring
    /\ monitoring.pc = "rest"
    /\ LET m == monitoring
           monitor_etc == monitoring_setup_one(m.dirname_etc, created_etc)
           monitor_run == monitoring_setup_one(m.dirname_run, created_run)
           array == m.local \o <<monitor_etc, monitor_run, None>>
       IN  monitoring' =
               [m EXCEPT !.pc = "done",
                         !.j = @ + 2,
                         !.local = <<>>,
                         !.monitors = Some(array),
                         !.active = @ \cup {x[1] : x \in {monitor_etc, monitor_run} \ {None}}]
    /\ MonitoringUnchanged

\* line 1501: dispose() clears the monitors
monitoring_dispose ==
    /\ monitoring # NoMonitoring
    /\ monitoring.pc = "done"
    /\ monitoring' = [monitoring_clear(monitoring) EXCEPT !.pc = "disposed"]
    /\ MonitoringUnchanged

MonitoringNext ==
    \/ monitoring_setup_begin
    \/ \E behind \in {None, Some(GarbageDirname), Some("crash")}, created \in BOOLEAN :
           monitoring_setup_libs(behind, created)
    \/ \E created_etc, created_run \in BOOLEAN : monitoring_setup_rest(created_etc, created_run)
    \/ monitoring_dispose

MonitoringSpec == MonitoringInit /\ [][MonitoringNext]_vars

\* a started _do_reload_all() keeps running: the plugin is single-threaded and
\* nothing preempts it
FairSpec == Spec /\ WF_vars(do_reload_all)


(***************************************************************************)
(* Properties.  An operation that has finished is at pc = "done": `pre' is *)
(* the state it started in, `events' the signals it emitted, and the       *)
(* keyfile directories are as the operation saw them.                      *)
(***************************************************************************)
ReloadDone == pc = "done" /\ last.op = "reload_all"
LoadDone == pc = "done" /\ last.op = "load_connection" /\ last.ok

HintRun(u) == loaded[<<dirname_run, u>>]
HintEtc(u) == loaded[<<dirname_etc, u>>]
NoHint(u) == HintRun(u) = None /\ HintEtc(u) = None

\* the keyfiles on disk that decode to a profile of identifier u
FilesOf(u) == {p \in Slots : files[p].exists /\ files[p].ok /\ files[p].uuid = u}

\* tier and priority rank of a keyfile, by the directory it is in
TierOf(p) ==
    IF p.dir = dirname_run THEN STORAGE_TYPE_RUN
    ELSE IF p.dir = dirname_etc THEN STORAGE_TYPE_ETC
    ELSE STORAGE_TYPE_LIB
RankOf(p) == IndexOf(DirOrder, p.dir) - 1

\* rank ascending, mtime seconds descending, mtime nanoseconds descending,
\* file name ascending
MoreImportant(p, q) ==
    \/ RankOf(p) < RankOf(q)
    \/ /\ RankOf(p) = RankOf(q)
       /\ \/ files[p].mtime[1] > files[q].mtime[1]
          \/ /\ files[p].mtime[1] = files[q].mtime[1]
             /\ \/ files[p].mtime[2] > files[q].mtime[2]
                \/ /\ files[p].mtime[2] = files[q].mtime[2]
                   /\ IndexOf(FileNameOrder, p.name) < IndexOf(FileNameOrder, q.name)

Minimal(u) == CHOOSE p \in FilesOf(u) : \A q \in FilesOf(u) \ {p} : MoreImportant(p, q)

WasInMemory(u) == pre.records[u].storage_type_exported = STORAGE_TYPE_MEM

SameSettings(a, b) == a # NoConnection /\ b # NoConnection /\ a[1] = b[1]

EventsOf(u) == SelectSeq(events, LAMBDA e : e.uuid = u)
IsModify(e) == e.connection # NoConnection
IsRemoval(e) == e.connection = NoConnection

\* the case of C1: a reload of a record that was not in memory, with keyfiles
\* and without hint
C1_Case(u) == ReloadDone /\ FilesOf(u) # {} /\ NoHint(u) /\ ~WasInMemory(u)

\* C1 as stated: after a reload of a record that has observations, no hint and
\* no in-memory export, the exported payload equals the payload of the
\* observation that is minimal under (rank, newer mtime, file name), and the
\* exported tier is that observation's tier.
C1_ExportedIsMinimal ==
    \A u \in UUIDs :
        C1_Case(u) =>
            /\ u \in idx
            /\ conn_info[u].connection_exported = files[Minimal(u)].connection
            /\ conn_info[u].storage_type_exported = TierOf(Minimal(u))

\* C1 amended: the exported payload equals the minimal observation's payload
\* up to the secrets the comparison ignores, it is that very payload when the
\* reload signalled a change, and the exported tier is that observation's tier.
C1_ExportedIsMinimalIgnoringSecrets ==
    \A u \in UUIDs :
        C1_Case(u) =>
            /\ u \in idx
            /\ SameSettings(conn_info[u].connection_exported, files[Minimal(u)].connection)
            /\ (EventsOf(u) # <<>> =>
                    conn_info[u].connection_exported = files[Minimal(u)].connection)
            /\ conn_info[u].storage_type_exported = TierOf(Minimal(u))

\* two keyfiles of one tier, the newer one got exported by this reload
C1_Witness ==
    \E u \in UUIDs :
        /\ C1_Case(u)
        /\ \E p, q \in FilesOf(u) : p # q /\ RankOf(p) = RankOf(q)
        /\ EventsOf(u) # <<>>
        /\ conn_info[u].connection_exported = files[Minimal(u)].connection

\* the case of C2: the reload is in _conn_info_storage_data_prioritize_loaded()
\* for record u, whose hint names the keyfile p of u
C2_Case(u, p) ==
    /\ pc = "prioritize"
    /\ Head(todo) = u
    /\ ~WasInMemory(u)
    /\ loaded_path = Some(p)
    /\ p \in FilesOf(u)

\* C2 as stated: when the consolidated hint is concrete and names a file that
\* is an observation of the record, the reload completes with that
\* observation as the winner, whether or not it is first in sorted order.
C2_HintedObservationWins ==
    \A u \in UUIDs : \A p \in Slots :
        C2_Case(u, p) ~>
            (/\ ReloadDone
             /\ u \in idx
             /\ SameSettings(conn_info[u].connection_exported, files[p].connection)
             /\ conn_info[u].storage_type_exported = TierOf(p))

\* C3 as stated: every reload terminates; a reload that has not finished can
\* take a step that changes its state.
C3_ReloadAllAdvances ==
    pc \in {"loaded_path", "prioritize", "export", "emit"} => ENABLED <<do_reload_all>>_vars

\* the case of C4: a reload that started right after a reload returned, with
\* no change to the keyfile directories or to the index in between
C4_Case == ReloadDone /\ last.again

\* C4: a reload that immediately follows a reload, with no file or hint
\* changed in between, emits no notification and leaves every record's
\* exported value, exported tier and handle as they were.
C4_ReloadIdempotent ==
    C4_Case =>
        /\ events = <<>>
        /\ Snapshot = pre

\* the second reload found a record that exports a keyfile
C4_Witness ==
    /\ C4_Case
    /\ \E u \in idx :
           /\ FilesOf(u) # {}
           /\ conn_info[u].connection_exported # NoConnection
           /\ conn_info[u].storage # NoStorage

\* the hint the reload acts on: the one of /run when there is one, else the
\* one of /etc
ConsolidatedHint(u) == IF HintRun(u) # None THEN HintRun(u) ELSE HintEtc(u)
Masked(u) == ConsolidatedHint(u) = Some(NM_KEYFILE_PATH_NMLOADED_NULL)

\* the case of C5: a reload runs or has finished, and record u exported an
\* in-memory connection when it started
C5_Case(u) == last.op = "reload_all" /\ pre.records[u].present /\ WasInMemory(u)

Removals(u) == SelectSeq(EventsOf(u), IsRemoval)
Modifies(u) == SelectSeq(EventsOf(u), IsModify)

\* the case of C6: a finished reload of a record that was not in memory and
\* whose consolidated hint is the masking sentinel
C6_Case(u) == ReloadDone /\ Masked(u) /\ ~WasInMemory(u)

\* C6: when the consolidated hint masks a record that is not in memory, the
\* reload leaves it without exported value and without handle; the record
\* stays in the index if it has observations; exactly one removal
\* notification is emitted for it if it had an exported value, else none.
C6_MaskedNotExported ==
    \A u \in UUIDs :
        C6_Case(u) =>
            /\ conn_info[u].connection_exported = NoConnection
            /\ conn_info[u].storage = NoStorage
            /\ (FilesOf(u) # {} => u \in idx /\ conn_info[u].cisd_lst_head # <<>>)
            /\ Len(Removals(u)) =
                   (IF pre.records[u].connection_exported # NoConnection THEN 1 ELSE 0)
            /\ Modifies(u) = <<>>

\* the reload masked a record that exported a keyfile and still has keyfiles
C6_Witness ==
    \E u \in UUIDs :
        /\ C6_Case(u)
        /\ FilesOf(u) # {}
        /\ u \in idx
        /\ pre.records[u].connection_exported # NoConnection
        /\ Len(Removals(u)) = 1

\* the case of C7: a finished reload found neither keyfile nor hint for u
C7_Case(u) == ReloadDone /\ FilesOf(u) = {} /\ NoHint(u)

\* a record created by the operation that has finished gets a handle that no
\* record had before
FreshHandle(u) ==
    (pc = "done" /\ ~pre.records[u].present /\ u \in idx /\ conn_info[u].storage # NoStorage)
        => /\ conn_info[u].storage > pre.storages
           /\ storages[conn_info[u].storage] = Some(u)

Winner(u) == conn_info[u].cisd_lst_head[1].full_filename

\* the case of C8 in a reload: the payload chosen for a record that was not in
\* memory equals the exported one up to ignored secrets
C8_ReloadCase(u) ==
    /\ ReloadDone
    /\ u \in idx
    /\ ~WasInMemory(u)
    /\ ~Masked(u)
    /\ conn_info[u].cisd_lst_head # <<>>
    /\ SameSettings(files[Winner(u)].connection, pre.records[u].connection_exported)

\* the case of C8 in a load of one keyfile
C8_LoadCase(u) ==
    /\ LoadDone
    /\ files[last.path[1]].uuid = u
    /\ SameSettings(files[last.path[1]].connection, pre.records[u].connection_exported)

\* C8: when the payload chosen by a reload, or read by a load of one keyfile,
\* equals the exported value up to the secrets the comparison ignores, no
\* add/modify notification is emitted and the exported value stays the
\* prior one.
C8_EqualPayloadKeepsExported ==
    \A u \in UUIDs :
        (C8_ReloadCase(u) \/ C8_LoadCase(u)) =>
            /\ Modifies(u) = <<>>
            /\ conn_info[u].connection_exported = pre.records[u].connection_exported

\* the reload chose a payload that differs from the exported one in ignored
\* secrets only
C8_Witness ==
    \E u \in UUIDs :
        /\ C8_ReloadCase(u)
        /\ files[Winner(u)].connection # pre.records[u].connection_exported

BothHints(u) == HintRun(u) # None /\ HintEtc(u) # None

\* the case of C9 while the reload decides about record u
C9_Deciding(u) ==
    /\ last.op = "reload_all"
    /\ pc \in {"prioritize", "export"}
    /\ Head(todo) = u
    /\ BothHints(u)

\* the case of C9 after the reload
C9_Decided(u) == ReloadDone /\ BothHints(u) /\ ~WasInMemory(u)

\* C9: when a record has a hint in /run and one in /etc, the reload acts on
\* the one of /run only and discards the one of /etc, also when the one of
\* /run does not resolve: masking and the hinted path come from /run alone,
\* and the outcome is the one of the /run hint.
C9_RunHintWins ==
    \A u \in UUIDs :
        /\ C9_Deciding(u) =>
               /\ loaded_dirname = dirname_run
               /\ loaded_path_masked = (HintRun(u) = Some(NM_KEYFILE_PATH_NMLOADED_NULL))
               /\ loaded_path \in {None, HintRun(u)}
               /\ conn_info[u].loaded_path_etc = None
               /\ conn_info[u].loaded_path_run = None
        /\ C9_Decided(u) =>
               IF HintRun(u) = Some(NM_KEYFILE_PATH_NMLOADED_NULL)
               THEN conn_info[u].connection_exported = NoConnection
               ELSE FilesOf(u) # {} =>
                       /\ u \in idx
                       /\ conn_info[u].connection_exported # NoConnection
                       /\ (stat(HintRun(u)[1]) = None =>
                               /\ SameSettings(conn_info[u].connection_exported,
                                               files[Minimal(u)].connection)
                               /\ conn_info[u].storage_type_exported = TierOf(Minimal(u)))

\* the /etc hint masks, the /run hint names a keyfile: the record is exported
C9_Witness ==
    \E u \in UUIDs :
        /\ C9_Decided(u)
        /\ HintEtc(u) = Some(NM_KEYFILE_PATH_NMLOADED_NULL)
        /\ HintRun(u) # Some(NM_KEYFILE_PATH_NMLOADED_NULL)
        /\ FilesOf(u) # {}
        /\ conn_info[u].connection_exported # NoConnection

\* the case of C10: record u exported the keyfile of the library directory
\* when the reload started; the reload finds a keyfile of u in /etc, none in
\* /run, and no hint
C10_Case(u) ==
    /\ ReloadDone
    /\ pre.records[u].storage_type_exported = STORAGE_TYPE_LIB
    /\ \E c \in FilesOf(u) :
           /\ TierOf(c) = STORAGE_TYPE_LIB
           /\ pre.records[u].connection_exported = files[c].connection
    /\ \E d \in FilesOf(u) : TierOf(d) = STORAGE_TYPE_ETC
    /\ \A p \in FilesOf(u) : TierOf(p) # STORAGE_TYPE_RUN
    /\ NoHint(u)

\* C10 as stated: when a record exports a keyfile of the library directory
\* and /etc gains a keyfile of the same identifier, the next reload exports
\* from /etc and emits the modify notification for it exactly once.
C10_EtcTakesOver ==
    \A u \in UUIDs :
        C10_Case(u) =>
            /\ conn_info[u].storage_type_exported = STORAGE_TYPE_ETC
            /\ Len(Modifies(u)) = 1
            /\ Removals(u) = <<>>

\* C10 amended: the exported tier becomes /etc; the modify notification is
\* emitted exactly once when the payload of the /etc keyfile differs from the
\* exported one in more than ignored secrets, and not at all otherwise.
C10_EtcTakesOverModifyIfChanged ==
    \A u \in UUIDs :
        C10_Case(u) =>
            /\ conn_info[u].storage_type_exported = STORAGE_TYPE_ETC
            /\ TierOf(Minimal(u)) = STORAGE_TYPE_ETC
            /\ Len(Modifies(u)) =
                   (IF SameSettings(files[Minimal(u)].connection,
                                    pre.records[u].connection_exported)
                    THEN 0 ELSE 1)
            /\ (Modifies(u) # <<>> =>
                    Modifies(u)[1].connection = files[Minimal(u)].connection)
            /\ Removals(u) = <<>>

\* /etc took over with a changed payload and one modify notification
C10_Witness ==
    \E u \in UUIDs :
        /\ C10_Case(u)
        /\ conn_info[u].storage_type_exported = STORAGE_TYPE_ETC
        /\ Len(Modifies(u)) = 1
        /\ conn_info[u].connection_exported = files[Minimal(u)].connection

\* the keyfile and the identifier of the load_connection() that returned TRUE
\* right before the reload started, with no change to the keyfile directories
\* in between
LoadedBefore == last.op = "reload_all" /\ last.path # None
LoadedPath == last.path[1]
LoadedUUID == files[LoadedPath].uuid

\* the case of C11: such a reload runs, and the load wrote the /run marker
C11_Case ==
    /\ LoadedBefore
    /\ pc # "done"
    /\ HintRun(LoadedUUID) = Some(LoadedPath)

\* the reload has returned with the loaded keyfile still exported and without
\* notification for its identifier
C11_Kept ==
    /\ LoadedUUID \in idx
    /\ SameSettings(conn_info[LoadedUUID].connection_exported, files[LoadedPath].connection)
    /\ EventsOf(LoadedUUID) = <<>>

\* C11 as stated, for a load that wrote its marker: the reload that follows a
\* successful load of p completes, the exported payload of p's identifier is
\* still p's payload, and the reload emits no notification for it.
C11_LoadedFileStaysExported ==
    C11_Case ~> (ReloadDone /\ LoadedBefore /\ C11_Kept)

\* what holds of the reloads of C11 that return
C11_KeptIfReturned ==
    (ReloadDone /\ LoadedBefore /\ HintRun(LoadedUUID) = Some(LoadedPath)) => C11_Kept

\* the identifier of the keyfile that the finished load_connection() decoded
LoadUUID == files[last.path[1]].uuid

\* C12 as stated: a load_connection() that returns TRUE returns a handle that
\* is not NULL and is the handle of the record of the decoded identifier, and
\* the signal it emits carries that handle, also when the identifier had no
\* record or no exported value before.
C12_LoadReturnsHandle ==
    LoadDone =>
        /\ last.out_storage # NoStorage
        /\ conn_info[LoadUUID].storage = last.out_storage
        /\ storages[last.out_storage] = Some(LoadUUID)
        /\ \A i \in 1..Len(events) : events[i].storage = last.out_storage

\* record u exports a connection through a handle whose back-link is u
HasBoundHandle(u) ==
    /\ conn_info[u].storage # NoStorage
    /\ storages[conn_info[u].storage] = Some(u)

\* C13 as stated: after every completed reload or load, every record in the
\* index that exports a connection has a handle, and the back-link of that
\* handle is the record.
C13_ExportedHasHandle ==
    pc = "done" =>
        \A u \in idx : conn_info[u].connection_exported # NoConnection => HasBoundHandle(u)

\* what holds of C13 after a reload
C13_ExportedHasHandleAfterReload ==
    ReloadDone =>
        \A u \in idx : conn_info[u].connection_exported # NoConnection => HasBoundHandle(u)

RemovalEvents == SelectSeq(events, IsRemoval)

\* C14 as stated: every removal signal of a reload carries the identifier and
\* the handle, not NULL, that the record held when the reload started, also
\* when the record's connection was exported by load_connection().
C14_RemovalCarriesHandle ==
    ReloadDone =>
        \A i \in 1..Len(RemovalEvents) :
            /\ pre.records[RemovalEvents[i].uuid].connection_exported # NoConnection
            /\ RemovalEvents[i].storage = pre.records[RemovalEvents[i].uuid].storage
            /\ RemovalEvents[i].storage # NoStorage

\* what holds of C14: the signal carries whatever the record held, NULL or not
C14_RemovalCarriesPriorStorage ==
    ReloadDone =>
        \A i \in 1..Len(RemovalEvents) :
            /\ pre.records[RemovalEvents[i].uuid].connection_exported # NoConnection
            /\ RemovalEvents[i].storage = pre.records[RemovalEvents[i].uuid].storage

\* the case of C15: a load_connection() that returned TRUE for an identifier
\* whose record exported an in-memory connection
C15_Case == LoadDone /\ WasInMemory(LoadUUID)

C16_MustFail(p) ==
    \/ ~p.abs
    \/ p.dir \notin Dirnames
    \/ (p.dir # dirname_etc /\ p.name \notin ExtensionNames)
    \/ p \notin Slots
    \/ ~files[p].exists
    \/ ~files[p].ok

\* C16: a load_connection() of a path that cannot be classified or decoded
\* returns FALSE and changes nothing: no record is created or modified, no
\* signal is emitted, no marker is written.
C16_FailedLoadChangesNothing ==
    [][\A p \in LoadPaths :
          (/\ pc = "idle"
           /\ pc' = "done"
           /\ last'.op = "load_connection"
           /\ last'.path = Some(p)
           /\ C16_MustFail(p))
          => /\ ~last'.ok
             /\ last'.out_storage = NoStorage
             /\ events' = <<>>
             /\ UNCHANGED <<files, loaded, lst_head, idx, conn_info, filename_idx, storages>>]_vars

\* a load of a file that the reader rejects has failed, with records in the
\* index
C16_Witness ==
    /\ pc = "done"
    /\ last.op = "load_connection"
    /\ ~last.ok
    /\ last.path[1] \in Slots
    /\ files[last.path[1]].exists
    /\ ~files[last.path[1]].ok
    /\ idx # {}

\* C17: in every reachable state the list of records holds every record of
\* the index once and no other record: one record per identifier, the same
\* records in the hash table and in the list.
C17_IndexAndListAgree ==
    /\ {lst_head[i] : i \in 1..Len(lst_head)} = idx
    /\ Len(lst_head) = Cardinality(idx)
    /\ \A u \in UUIDs \ idx : conn_info[u] = NoConnInfo

\* a reload has destroyed one record and kept another one
C17_Witness ==
    \E u, v \in UUIDs :
        /\ ReloadDone
        /\ pre.records[u].present
        /\ pre.records[v].present
        /\ u \notin idx
        /\ idx = {v}
        /\ lst_head = <<v>>

\* record u has an observation, or a marker of its identifier exists
HasObservationOrHint(u) == conn_info[u].cisd_lst_head # <<>> \/ ~NoHint(u)

\* C18 as stated, for the records that export no in-memory connection
\* (the claim says whatever the exported tier): after every completed reload
\* or load no record without observation and without hint is in the index.
C18_NoRecordWithoutObservationOrHint ==
    pc = "done" =>
        \A u \in idx : ~is_in_memory(conn_info[u]) => HasObservationOrHint(u)

\* what holds of C18 after a reload
C18_AfterReload ==
    ReloadDone =>
        \A u \in idx : ~is_in_memory(conn_info[u]) => HasObservationOrHint(u)

\* C19 as stated: a reload destroys a record only when the scan found neither
\* an observation nor a hint for it; a record for which only a hint is found
\* is in the index after the reload.
C19_HintKeepsRecord ==
    ReloadDone =>
        \A u \in UUIDs :
            /\ (pre.records[u].present /\ u \notin idx) => (FilesOf(u) = {} /\ NoHint(u))
            /\ (FilesOf(u) = {} /\ ~NoHint(u)) => u \in idx

\* C19 amended: a reload keeps a record that exports no in-memory connection
\* exactly when the scan found an observation for it, whether or not it found
\* a hint; a record that exports an in-memory connection is kept.
C19_ObservationKeepsRecord ==
    ReloadDone =>
        \A u \in UUIDs :
            /\ ~WasInMemory(u) => (u \in idx <=> FilesOf(u) # {})
            /\ (pre.records[u].present /\ WasInMemory(u)) => u \in idx

\* the scan found only a hint for a record, and the reload destroyed it
C19_Witness ==
    \E u \in UUIDs :
        /\ ReloadDone
        /\ pre.records[u].present
        /\ ~WasInMemory(u)
        /\ FilesOf(u) = {}
        /\ ~NoHint(u)
        /\ u \notin idx

\* the observations held by the records of the index, as <<uuid, position>>
Observations ==
    UNION {{<<u, i>> : i \in DOMAIN conn_info[u].cisd_lst_head} : u \in idx}

ObservedPath(o) == conn_info[o[1]].cisd_lst_head[o[2]].full_filename

\* C20: after a completed reload the filename index holds exactly the paths of
\* the observations of the records in the index, each mapped to the record
\* that owns the observation; no path maps to a record that is gone, and no
\* path was inserted twice (one entry per observation).
C20_FilenameIndexIsObservations ==
    ReloadDone =>
        /\ filename_idx = {<<ObservedPath(o), o[1]>> : o \in Observations}
        /\ \A e \in filename_idx : e[2] \in idx
        /\ \A e1, e2 \in filename_idx : e1[1] = e2[1] => e1 = e2
        /\ Cardinality(filename_idx) = Cardinality(Observations)

\* a reload ended with a record that has two observations, both indexed
C20_Witness ==
    /\ ReloadDone
    /\ \E u \in idx : Len(conn_info[u].cisd_lst_head) >= 2
    /\ Cardinality(filename_idx) >= 2

\* C21: within one reload every removal signal is emitted before any
\* add/modify signal, and no signal is emitted while the loop over the
\* records is still running.
C21_RemovalsFirstAfterResolution ==
    /\ (last.op = "reload_all" /\ pc # "done") => events = <<>>
    /\ ReloadDone =>
           \A i, j \in DOMAIN events :
               (IsRemoval(events[i]) /\ IsModify(events[j])) => i < j

\* a reload emitted both a removal and an add/modify signal
C21_Witness ==
    /\ ReloadDone
    /\ \E i, j \in DOMAIN events : IsRemoval(events[i]) /\ IsModify(events[j])

\* C22: the back-link of a storage never refers to a record that is not in
\* the index, also for a storage that a reload detached from a masked record.
C22_NoBackLinkToDestroyedRecord ==
    \A k \in DOMAIN storages :
        storages[k] # None => storages[k][1] \in idx

\* the back-link of the storage a record holds is cleared with the record
C22_HeldStorageIsBound ==
    \A u \in UUIDs :
        /\ u \notin idx => conn_info[u].storage = NoStorage
        /\ conn_info[u].storage # NoStorage => storages[conn_info[u].storage] = Some(u)

\* every pending file-change event has been handled
EventsHandled == pc = "idle" /\ last.op = "dir_changed"

\* C23: after the handler has run for the one file that changed since the
\* last reload, the index is what a reload would make of the keyfile
\* directories: an identifier without hint that is not exported from memory
\* has a record exactly when a keyfile of it exists, and then the record
\* exports the settings and the storage type of the most important keyfile.
C23_EventsMatchReload ==
    EventsHandled =>
        \A u \in UUIDs :
            (NoHint(u) /\ ~is_in_memory(conn_info[u])) =>
                /\ u \in idx <=> FilesOf(u) # {}
                /\ FilesOf(u) # {} =>
                       /\ SameSettings(conn_info[u].connection_exported,
                                       files[Minimal(u)].connection)
                       /\ conn_info[u].storage_type_exported = TierOf(Minimal(u))

\* the directories the classifier looks at, in the order it looks at them
DetectCandidates ==
    (IF detect.dirname_run # None
     THEN <<[tier |-> STORAGE_TYPE_RUN, dir |-> detect.dirname_run[1]]>> ELSE <<>>)
    \o (IF detect.dirname_etc # None
        THEN <<[tier |-> STORAGE_TYPE_ETC, dir |-> detect.dirname_etc[1]]>> ELSE <<>>)
    \o [i \in 1..Len(detect.dirname_libs) |->
            [tier |-> STORAGE_TYPE_LIB, dir |-> detect.dirname_libs[i]]]

\* the positions of the directories the path is a direct child of
DetectMatches ==
    {i \in DOMAIN DetectCandidates :
        detect.full_filename.abs /\ DetectCandidates[i].dir = detect.full_filename.dir}

FirstMatch == DetectCandidates[CHOOSE i \in DetectMatches : \A j \in DetectMatches : i <= j]

\* the naming filter: backup files fail it, and so do names without the
\* extension outside of the /etc tier
FailsFilter(tier, name) ==
    \/ name \in ExcludedNames
    \/ tier # STORAGE_TYPE_ETC /\ name \notin ExtensionNames

DetectReturned == detect # NoDetect /\ detect.returned

\* C24: for an absolute path that is a direct child of a configured directory
\* and passes the naming filter, the classifier returns the tier of the first
\* matching directory in the order /run, /etc, libs in their order, with
\* that directory and the bare file name; a directory that is NULL never
\* matches.
C24_FirstMatchingDirectory ==
    (DetectReturned /\ DetectMatches # {}
                    /\ ~FailsFilter(FirstMatch.tier, detect.full_filename.name)) =>
        /\ detect.ok
        /\ detect.out_storage_type = FirstMatch.tier
        /\ detect.out_dirname = FirstMatch.dir
        /\ detect.out_filename = detect.full_filename.name
        /\ (detect.dirname_run = None => detect.out_storage_type # STORAGE_TYPE_RUN)
        /\ (detect.dirname_etc = None => detect.out_storage_type # STORAGE_TYPE_ETC)

\* the path is in the directory passed both as /run and as /etc directory,
\* and is classified as a /run file
C24_Witness ==
    /\ DetectReturned
    /\ detect.ok
    /\ Cardinality(DetectMatches) >= 2
    /\ detect.dirname_etc = detect.dirname_run
    /\ detect.out_storage_type = STORAGE_TYPE_RUN

\* C25: the classifier fails, with the error set and no out parameter
\* written, exactly when the path is not absolute, or is in none of the
\* directories, or its name fails the naming filter of the matched tier; the
\* /etc tier accepts names without the extension, the other tiers do not.
C25_FailsExactlyWhen ==
    DetectReturned =>
        /\ ~detect.ok <=>
               \/ ~detect.full_filename.abs
               \/ DetectMatches = {}
               \/ FailsFilter(FirstMatch.tier, detect.full_filename.name)
        /\ ~detect.ok =>
               /\ detect.error # ""
               /\ detect.out_storage_type = Unset
               /\ detect.out_dirname = Unset
               /\ detect.out_filename = Unset
        /\ detect.ok => detect.error = ""

\* a name without the extension was rejected in the /run directory, where
\* the same name is accepted in the /etc directory
C25_Witness ==
    /\ DetectReturned
    /\ ~detect.ok
    /\ detect.full_filename = Path(dirname_run, "a")
    /\ detect.dirname_run = Some(dirname_run)
    /\ detect.error = "filename is not a valid keyfile"

\* the inodes of the keyfiles of identifier u
InodesOf(u) == {StatIno(p) : p \in FilesOf(u)}

\* the consolidated hint of u is a path that does not resolve, or that
\* resolves to a file that is no keyfile of u
HintToDiscard(u) ==
    /\ ConsolidatedHint(u) # None
    /\ ~Masked(u)
    /\ LET t == ConsolidatedHint(u)[1]
       IN  \/ ~t.abs
           \/ stat(t) = None
           \/ stat(t)[1] \notin InodesOf(u)

\* the case of C26: a record that was not in memory has keyfiles and such a hint
C26_Case(u) == FilesOf(u) # {} /\ ~WasInMemory(u) /\ HintToDiscard(u)

\* the most important keyfile of u is exported, as without hint
C26_SortedFirstExported(u) ==
    /\ u \in idx
    /\ SameSettings(conn_info[u].connection_exported, files[Minimal(u)].connection)
    /\ conn_info[u].storage_type_exported = TierOf(Minimal(u))
    /\ Winner(u) = Minimal(u)

\* C26 as stated: a reload of a record whose hint does not resolve, or matches
\* none of the record's keyfiles, discards the hint and completes with the
\* first keyfile of the sorted order as the winner.
C26_UnresolvedHintDiscarded ==
    (last.op = "reload_all" /\ pc # "done" /\ \E u \in UUIDs : C26_Case(u))
        ~> (ReloadDone /\ \A u \in UUIDs : C26_Case(u) => C26_SortedFirstExported(u))

\* what holds of the reloads of C26 that return
C26_DiscardedIfReturned ==
    ReloadDone => \A u \in UUIDs : C26_Case(u) => C26_SortedFirstExported(u)

\* a reload has finished during which a keyfile directory could not be opened
UnreadableDone == ReloadDone /\ last.unreadable # None

\* C27: when a directory cannot be opened during a reload, no identifier
\* loses its exported value because of that: an identifier that was exported,
\* is not masked and has a keyfile on disk is still exported after the reload,
\* and no removal signal is emitted for it.
C27_UnreadableDirLosesNothing ==
    UnreadableDone =>
        \A u \in UUIDs :
            (/\ pre.records[u].connection_exported # NoConnection
             /\ ~Masked(u)
             /\ FilesOf(u) # {}) =>
                /\ u \in idx
                /\ conn_info[u].connection_exported # NoConnection
                /\ Removals(u) = <<>>

\* the same for reloads that could open every directory
C27_ReadableDirsLoseNothing ==
    (ReloadDone /\ last.unreadable = None) =>
        \A u \in UUIDs :
            (/\ pre.records[u].connection_exported # NoConnection
             /\ ~Masked(u)
             /\ FilesOf(u) # {}) =>
                /\ u \in idx
                /\ conn_info[u].connection_exported # NoConnection
                /\ Removals(u) = <<>>

\* the record of the file's identifier holds an observation of the file
Observed(p) ==
    /\ files[p].uuid \in idx
    /\ \E i \in DOMAIN conn_info[files[p].uuid].cisd_lst_head :
           conn_info[files[p].uuid].cisd_lst_head[i].full_filename = p

Undecodable == {p \in Slots : files[p].exists /\ ~files[p].ok}
Decodable == {p \in Slots : files[p].exists /\ files[p].ok}

\* C28: a file that fails to decode is skipped and does not end the walk:
\* from the scan on, every decodable keyfile of the same directory and of the
\* directories read after it has an observation, in whatever order the
\* directory is enumerated, and the rejected file has none.
C28_DecodeFailureSkipped ==
    (last.op = "reload_all" /\ Undecodable # {}) =>
        /\ \A p \in Decodable : Observed(p)
        /\ \A u \in idx : \A i \in DOMAIN conn_info[u].cisd_lst_head :
               conn_info[u].cisd_lst_head[i].full_filename \in Decodable

\* a reload has read a directory with a rejected file and a decodable one
C28_Witness ==
    /\ ReloadDone
    /\ \E p \in Undecodable : \E q \in Decodable : p.dir = q.dir /\ Observed(q)

\* the keyfiles of identifier u in directory d
FilesIn(u, d) ==
    {p \in DOMAIN files : p.dir = d /\ files[p].exists /\ files[p].ok /\ files[p].uuid = u}

\* the case of C29: after a reload, identifier u has no hint and has keyfiles
\* in the read-only directories at positions i < j
C29_Case(u, i, j) ==
    /\ ReloadDone
    /\ i < j
    /\ NoHint(u)
    /\ FilesIn(u, LibsConfig[i]) # {}
    /\ FilesIn(u, LibsConfig[j]) # {}
    /\ FilesIn(u, dirname_run) = {}
    /\ FilesIn(u, dirname_etc) = {}

\* C29 as stated: of two read-only directories the later one has the higher
\* priority, so the exported connection is the one of a keyfile of the later
\* directory.
C29_LaterDirectoryWins ==
    \A u \in UUIDs : \A i, j \in DOMAIN LibsConfig :
        C29_Case(u, i, j) =>
            /\ u \in idx
            /\ \E p \in FilesIn(u, LibsConfig[j]) :
                   conn_info[u].connection_exported = files[p].connection

\* what the reload does: the earlier directory has the smaller
\* storage_priority, and its keyfile is exported
C29_EarlierDirectoryWins ==
    \A u \in UUIDs : \A i, j \in DOMAIN LibsConfig :
        C29_Case(u, i, j) =>
            /\ u \in idx
            /\ \E p \in FilesIn(u, LibsConfig[i]) :
                   conn_info[u].connection_exported = files[p].connection

\* the marker of identifier u in the first read-only directory
LibMarker(u) == loaded[<<LibsConfig[1], u>>]

\* the keyfiles of identifier u in any directory, and the most important one
AllFilesOf(u) ==
    {p \in DOMAIN files : files[p].exists /\ files[p].ok /\ files[p].uuid = u}
MostImportant(u) ==
    CHOOSE p \in AllFilesOf(u) : \A q \in AllFilesOf(u) \ {p} : MoreImportant(p, q)

\* C30: a marker in a read-only directory is not honoured: from the scan on
\* it has set no loaded-path of the record and has created no record, and the
\* reload ends as without the marker: an identifier with keyfiles exports its
\* most important keyfile, is neither masked nor re-ordered, and is signalled
\* once as added.
C30_ReadOnlyMarkerIgnored ==
    \A u \in UUIDs :
        (last.op = "reload_all" /\ LibMarker(u) # None) =>
            /\ conn_info[u].loaded_path_run = None
            /\ conn_info[u].loaded_path_etc = None
            /\ u \in idx => AllFilesOf(u) # {}
            /\ (pc = "done" /\ AllFilesOf(u) # {}) =>
                   /\ u \in idx
                   /\ conn_info[u].connection_exported = files[MostImportant(u)].connection
                   /\ Winner(u) = MostImportant(u)
                   /\ Removals(u) = <<>>
                   /\ Len(Modifies(u)) = (IF last.again THEN 0 ELSE 1)

\* a reload ended with the keyfile of the first directory exported, while the
\* marker of the read-only directory points to /dev/null
C30_Witness ==
    /\ ReloadDone
    /\ LibMarker("X") = Some(NM_KEYFILE_PATH_NMLOADED_NULL)
    /\ "X" \in idx
    /\ conn_info["X"].connection_exported # NoConnection

\* a reload ended without record for an identifier that has the marker only
C30_WitnessNoRecord ==
    /\ ReloadDone
    /\ LibMarker("X") # None
    /\ AllFilesOf("X") = {}
    /\ "X" \notin idx

\* a step of load_connection() on path p that returns TRUE
LoadStep(p) ==
    /\ pc = "idle"
    /\ pc' = "done"
    /\ last'.op = "load_connection"
    /\ last'.path = Some(p)
    /\ last'.ok

\* the decoded connection differs from what the record of its identifier
\* exports, or the record exports nothing
LoadChanges(p) ==
    ~SameSettings(conn_info[files[p].uuid].connection_exported, files[p].connection)

\* C31: a load that returns TRUE emits exactly one add/modify signal, before
\* it returns, when the decoded connection differs from the exported one (or
\* there was none), and replaces the exported connection; it emits nothing
\* and keeps the exported connection otherwise.  In both cases it sets the
\* exported storage type to the one of the file's directory and tries to
\* write the /run marker of the identifier, pointing to the loaded path.
C31_LoadSignalsChangeOnce ==
    [][\A p \in Slots :
          LoadStep(p) =>
              LET u == files[p].uuid
              IN  /\ u \in idx'
                  /\ IF LoadChanges(p)
                     THEN /\ Len(events') = 1
                          /\ events'[1].uuid = u
                          /\ events'[1].connection = files[p].connection
                          /\ conn_info'[u].connection_exported = files[p].connection
                     ELSE /\ events' = <<>>
                          /\ conn_info'[u].connection_exported = conn_info[u].connection_exported
                  /\ conn_info'[u].storage_type_exported = TierOf(p)
                  /\ \/ loaded' = [loaded EXCEPT ![<<dirname_run, u>>] = Some(p)]
                     \/ loaded' = loaded]_vars

\* a load of a keyfile whose settings are the exported ones returned without signal
C31_Witness ==
    /\ LoadDone
    /\ pre.records[LoadUUID].connection_exported # NoConnection
    /\ events = <<>>
    /\ HintRun(LoadUUID) = last.path

\* a load replaced an exported connection and signalled it
C31_WitnessModified ==
    /\ LoadDone
    /\ pre.records[LoadUUID].connection_exported # NoConnection
    /\ Len(events) = 1

\* the observation at position o = <<identifier, position in the list>>
ObservationAt(o) == conn_info[o[1]].cisd_lst_head[o[2]]

\* the priority rank of the directory of a path, for the read-only directories libs
DirectoryRank(p, libs) ==
    IF p.dir = dirname_run THEN 0
    ELSE IF p.dir = dirname_etc THEN 1
    ELSE 2 + (IndexOf(libs, p.dir) - 1)

\* storage type t is more authoritative than storage type s
MoreAuthoritative(t, s) ==
    \/ t = STORAGE_TYPE_RUN /\ s \in {STORAGE_TYPE_ETC, STORAGE_TYPE_LIB}
    \/ t = STORAGE_TYPE_ETC /\ s = STORAGE_TYPE_LIB

RanksFollowTiers(libs) ==
    /\ \A o \in Observations :
           /\ ObservationAt(o).storage_type = TierOf(ObservationAt(o).full_filename)
           /\ ObservationAt(o).storage_priority = DirectoryRank(ObservationAt(o).full_filename, libs)
    /\ \A o1, o2 \in Observations :
           (o1[1] = o2[1]) =>
               LET a == ObservationAt(o1)
                   b == ObservationAt(o2)
               IN  /\ conn_info_storage_data_cmp_assert(a, b)
                   /\ a.storage_type # b.storage_type =>
                          /\ a.storage_priority # b.storage_priority
                          /\ MoreAuthoritative(a.storage_type, b.storage_type)
                                 <=> a.storage_priority < b.storage_priority

\* C32: every observation of a scan has the storage type of its directory and
\* the priority 0 in /run, 1 in /etc and 2 + k in the k-th read-only
\* directory; two observations of one record with different storage types
\* have different priorities, the more authoritative type the smaller one,
\* and the assertion of the comparison holds for every pair of them.
C32_RanksFollowTiers == RanksFollowTiers(dirname_libs)

\* the same with two read-only directories
C32_RanksFollowTiersLibs == RanksFollowTiers(LibsConfig)

\* a reload has sorted a record with a read-only keyfile and a keyfile of
\* /run or /etc
C32_Witness ==
    /\ ReloadDone
    /\ \E o1, o2 \in Observations :
           /\ o1[1] = o2[1]
           /\ ObservationAt(o1).storage_priority = 2
           /\ ObservationAt(o2).storage_priority < 2

\* a reload has read keyfiles of one identifier in two read-only directories
C32_WitnessLibs ==
    /\ ReloadDone
    /\ \E o1, o2 \in Observations :
           /\ o1[1] = o2[1]
           /\ ObservationAt(o1).storage_priority = 2
           /\ ObservationAt(o2).storage_priority = 3

\* the observations of record u, and the keys the comparison looks at
ObservationsOf(u) == {conn_info[u].cisd_lst_head[i] : i \in DOMAIN conn_info[u].cisd_lst_head}
SortKey(a) == <<a.storage_priority, a.stat_mtime, a.filename>>

\* the list of record u is in strictly ascending order of the comparison
StrictlySorted(u) ==
    \A i, j \in DOMAIN conn_info[u].cisd_lst_head :
        i < j => conn_info_storage_data_cmp(conn_info[u].cisd_lst_head[i],
                                            conn_info[u].cisd_lst_head[j]) < 0

\* C33: on the observations of one record the comparison is a strict total
\* order: no record has two observations at one position of (priority,
\* mtime, file name), because observations of equal priority are entries of
\* one directory with different file names; the comparison of two different
\* observations is never 0 (the final nm_assert_not_reached() is not
\* reached), is antisymmetric and transitive; and the sorted list of a
\* finished reload without hint is the one ascending arrangement, whatever
\* order the directories were enumerated in.
C33_ComparisonIsStrictTotalOrder ==
    \A u \in idx :
        /\ Cardinality(ObservationsOf(u)) = Len(conn_info[u].cisd_lst_head)
        /\ \A a, b \in ObservationsOf(u) :
               a # b =>
                   /\ SortKey(a) # SortKey(b)
                   /\ a.storage_priority = b.storage_priority =>
                          /\ a.full_filename.dir = b.full_filename.dir
                          /\ a.filename # b.filename
                   /\ conn_info_storage_data_cmp(a, b) # 0
                   /\ conn_info_storage_data_cmp(a, b) = 0 - conn_info_storage_data_cmp(b, a)
        /\ \A a, b, c \in ObservationsOf(u) :
               (conn_info_storage_data_cmp(a, b) < 0 /\ conn_info_storage_data_cmp(b, c) < 0)
                   => conn_info_storage_data_cmp(a, c) < 0
        /\ (ReloadDone /\ NoHint(u)) => StrictlySorted(u)

\* a reload has sorted two keyfiles of one directory and one mtime: the
\* file name decides
C33_Witness ==
    /\ ReloadDone
    /\ \E u \in idx :
           /\ NoHint(u)
           /\ \E a, b \in ObservationsOf(u) :
                  /\ a # b
                  /\ a.storage_priority = b.storage_priority
                  /\ a.stat_mtime = b.stat_mtime

\* a reload has sorted three keyfiles of one identifier
C33_WitnessThree ==
    /\ ReloadDone
    /\ \E u \in idx : Len(conn_info[u].cisd_lst_head) = 3

\* what record u exported when the operation started, and what it exports now
ExportedBefore(u) == pre.records[u].connection_exported
ExportedAfter(u) == IF u \in idx THEN conn_info[u].connection_exported ELSE NoConnection

\* C34: a finished reload has emitted at most one signal per identifier, and
\* the signals are exactly the changes of what is exported: a removal for u
\* if and only if u exported a connection before the reload and exports
\* none (or has no record) after it; an add/modify for u if and only if u
\* exports a connection after the reload that differs, secrets ignored, from
\* the one before, or exported none before; no signal for an identifier
\* whose exported connection is unchanged.
C34_SignalsAreExportChanges ==
    ReloadDone =>
        \A u \in UUIDs :
            /\ Len(EventsOf(u)) <= 1
            /\ Len(Removals(u)) = 1 <=>
                   (ExportedBefore(u) # NoConnection /\ ExportedAfter(u) = NoConnection)
            /\ Len(Modifies(u)) = 1 <=>
                   /\ ExportedAfter(u) # NoConnection
                   /\ ~SameSettings(ExportedBefore(u), ExportedAfter(u))
            /\ \A i \in 1..Len(Modifies(u)) : Modifies(u)[i].connection = ExportedAfter(u)
            /\ SameSettings(ExportedBefore(u), ExportedAfter(u)) => EventsOf(u) = <<>>

\* a reload has replaced an exported connection by one with other settings
C34_Witness ==
    /\ ReloadDone
    /\ \E u \in UUIDs :
           /\ ExportedBefore(u) # NoConnection
           /\ ExportedAfter(u) # NoConnection
           /\ ~SameSettings(ExportedBefore(u), ExportedAfter(u))
           /\ Len(EventsOf(u)) = 1

\* a reload has removed what one identifier exported and has kept what
\* another one exports
C34_WitnessRemoval ==
    /\ ReloadDone
    /\ \E u, v \in UUIDs :
           /\ ExportedBefore(u) # NoConnection
           /\ ExportedAfter(u) = NoConnection
           /\ Len(Removals(u)) = 1
           /\ SameSettings(ExportedBefore(v), ExportedAfter(v))

\* C35: after every reload that has finished, and whenever no reload runs,
\* _loaded_path_run and _loaded_path_etc of every record in the index are
\* empty, whatever branch the reload took for the record; so the next scan
\* finds them empty when it stores a marker (the nm_assert of _load_dir).
C35_LoadedPathsEmptyAfterReload ==
    pc \in {"idle", "done"} =>
        \A u \in idx :
            /\ conn_info[u].loaded_path_run = None
            /\ conn_info[u].loaded_path_etc = None

\* a reload has finished with a record whose identifier has a marker in /run
\* and a marker in /etc
C35_Witness ==
    /\ ReloadDone
    /\ \E u \in idx : BothHints(u)

\* a reload has finished with a masked record that is kept
C35_WitnessMasked ==
    /\ ReloadDone
    /\ \E u \in idx : Masked(u) /\ ~WasInMemory(u)

\* a reload has finished with an in-memory record whose identifier has a marker
C35_WitnessInMemory ==
    /\ ReloadDone
    /\ \E u \in idx : WasInMemory(u) /\ ~NoHint(u)

\* C36: from the scan of a reload on, and after the reload has finished, the
\* list of every record holds exactly the keyfiles that this scan decoded to
\* the record's identifier, each once and with the mtime and inode this scan
\* saw, and none of an earlier scan; an identifier without record has no
\* such keyfile; and when the reload has finished the connection of every
\* entry has been dropped.
C36_ObservationsAreThisScan ==
    last.op = "reload_all" =>
        \A u \in UUIDs :
            IF u \in idx
            THEN /\ {a.full_filename : a \in ObservationsOf(u)} = FilesOf(u)
                 /\ Len(conn_info[u].cisd_lst_head) = Cardinality(FilesOf(u))
                 /\ \A a \in ObservationsOf(u) :
                        /\ pc = "done" => a.connection = NoConnection
                        /\ a.stat_mtime = files[a.full_filename].mtime
                        /\ a.stat_ino = StatIno(a.full_filename)
            ELSE FilesOf(u) = {}

\* a reload has finished for a record that exported other settings before
\* and has a keyfile now: what the record tracked before is replaced
C36_Witness ==
    /\ ReloadDone
    /\ \E u \in idx :
           /\ ExportedBefore(u) # NoConnection
           /\ ExportedAfter(u) # NoConnection
           /\ ~SameSettings(ExportedBefore(u), ExportedAfter(u))
           /\ conn_info[u].cisd_lst_head # <<>>

\* a reload that follows a reload has finished with a record that has a keyfile
C36_WitnessAgain ==
    /\ ReloadDone
    /\ last.again
    /\ \E u \in idx : conn_info[u].cisd_lst_head # <<>>

\* a finished commit_changes() or delete()
StorageOpDone == pc = "done" /\ last.op \in {"commit_changes", "delete"}

\* the storage handed in was created for a record that does not hold it now:
\* a reload has detached it, or the record is gone
DetachedStorage(storage) ==
    /\ storage \in DOMAIN storages
    /\ \A u \in idx : conn_info[u].storage # storage

\* C37 as stated: a storage and a record are linked in both directions or
\* not at all, in every state; and commit_changes() and delete() with a
\* storage that no record holds, such as the one a reload has detached from
\* a masked record that is kept, fail with the error of a missing storage.
C37_StorageAndRecordLinkedBothWays ==
    /\ \A u \in idx :
           conn_info[u].storage # NoStorage => storages[conn_info[u].storage] = Some(u)
    /\ \A k \in DOMAIN storages :
           storages[k] # None => (storages[k][1] \in idx /\ conn_info[storages[k][1]].storage = k)
    /\ (StorageOpDone /\ DetachedStorage(last.storage)) =>
           (~last.ok /\ last.error = Some(MissingStorage))

\* what holds of C37: the storage a record holds links back to the record,
\* and a storage whose record was destroyed while holding it resolves to none
C37_HeldStorageLinksBack ==
    /\ \A u \in idx :
           conn_info[u].storage # NoStorage => storages[conn_info[u].storage] = Some(u)
    /\ (StorageOpDone /\ last.storage \in DOMAIN storages /\ storages[last.storage] = None) =>
           (~last.ok /\ last.error = Some(MissingStorage))

\* commit_changes() with the storage that a reload detached from a masked
\* record has returned TRUE
C37_WitnessDetached ==
    /\ StorageOpDone
    /\ last.op = "commit_changes"
    /\ DetachedStorage(last.storage)
    /\ storages[last.storage] # None
    /\ storages[last.storage][1] \in idx
    /\ Masked(storages[last.storage][1])
    /\ last.ok

\* a step of commit_changes(), delete() or add_connection()
StorageStep ==
    /\ pc = "idle"
    /\ pc' = "done"
    /\ last'.op \in {"commit_changes", "delete", "add_connection"}

\* the storage handed in resolves to no record
Unresolved(storage) == storage \notin DOMAIN storages \/ storages[storage] = None

\* C38: commit_changes() and delete() with a storage that resolves to no
\* record return FALSE with the error of a missing storage; add_connection()
\* and delete() return FALSE whatever they are given; and none of the three
\* operations changes the index, a record, a storage, the filename index or
\* a file, or emits a signal.
C38_StorageOperationsFail ==
    [][StorageStep =>
          /\ UNCHANGED <<files, loaded, lst_head, idx, conn_info, filename_idx, storages>>
          /\ events' = <<>>
          /\ (last'.op \in {"commit_changes", "delete"} /\ Unresolved(last'.storage)) =>
                 (~last'.ok /\ last'.error = Some(MissingStorage))
          /\ last'.op \in {"add_connection", "delete"} => ~last'.ok]_vars

\* commit_changes() has failed for the storage of a record that a reload removed
C38_Witness ==
    /\ StorageOpDone
    /\ last.op = "commit_changes"
    /\ last.storage \in DOMAIN storages
    /\ storages[last.storage] = None
    /\ ~last.ok
    /\ last.error = Some(MissingStorage)

\* delete() has failed for the storage that a record holds
C38_WitnessDelete ==
    /\ StorageOpDone
    /\ last.op = "delete"
    /\ \E u \in idx : conn_info[u].storage = last.storage /\ last.storage # NoStorage
    /\ ~last.ok

\* add_connection() has failed
C38_WitnessAdd == pc = "done" /\ last.op = "add_connection" /\ ~last.ok

\* a step of load_connection() on path p, whatever it returns
LoadCall(p) ==
    /\ pc = "idle"
    /\ pc' = "done"
    /\ last'.op = "load_connection"
    /\ last'.path = Some(p)

\* C39: load_connection() changes the record of the decoded identifier
\* only: every other record, its storage and its place in the index stay as
\* they were, no record is removed, the list of files of the loaded
\* identifier's record and the filename index stay as they were; a call
\* that returns FALSE changes no record at all.
C39_LoadChangesOneRecord ==
    [][\A p \in LoadPaths :
          LoadCall(p) =>
              /\ filename_idx' = filename_idx
              /\ idx \subseteq idx'
              /\ \A k \in DOMAIN storages : storages'[k] = storages[k]
              /\ IF last'.ok
                 THEN LET u == files[p].uuid
                      IN  /\ idx' = idx \cup {u}
                          /\ \A v \in UUIDs \ {u} : conn_info'[v] = conn_info[v]
                          /\ RemoveFromList(lst_head', u) = RemoveFromList(lst_head, u)
                          /\ conn_info'[u].cisd_lst_head = conn_info[u].cisd_lst_head
                 ELSE /\ UNCHANGED <<idx, conn_info, lst_head, storages>>
                      /\ events' = <<>>]_vars

\* a load has changed what one record exports while another record exists,
\* and the file it loaded is not in the list of its record
C39_Witness ==
    /\ LoadDone
    /\ \E v \in idx : v # LoadUUID /\ conn_info[v].connection_exported # NoConnection
    /\ Len(events) = 1
    /\ \A a \in ObservationsOf(LoadUUID) : a.full_filename # last.path[1]

\* a load has changed what a record with a tracked keyfile exports
C39_WitnessTracked ==
    /\ LoadDone
    /\ Len(events) = 1
    /\ conn_info[LoadUUID].cisd_lst_head # <<>>
    /\ \A a \in ObservationsOf(LoadUUID) : a.full_filename # last.path[1]

\* the directories that are configured
MonitoredDirnames ==
    (IF monitoring.dirname_libs = None THEN {}
     ELSE {monitoring.dirname_libs[1][k] : k \in 1..NM_PTRARRAY_LEN(monitoring.dirname_libs)})
    \cup {d[1] : d \in {monitoring.dirname_etc, monitoring.dirname_run} \ {None}}

\* C40 as stated: _monitoring_setup() ends; its loop over dirname_libs stops
\* at the end of the list and the function writes at most (number of
\* read-only directories + 3) entries of the array; monitors exist for
\* configured directories only; and the _monitoring_clear() that follows
\* leaves no monitor that was installed, also when an entry before it is NULL
\* because a directory is unset.
C40_MonitoringSetupAndClear ==
    monitoring # NoMonitoring =>
        /\ monitoring.pc \notin {"crashed", "overrun"}
        /\ monitoring.i <= NM_PTRARRAY_LEN(monitoring.dirname_libs)
        /\ monitoring.j <= NM_PTRARRAY_LEN(monitoring.dirname_libs) + 3
        /\ monitoring.active \subseteq MonitoredDirnames
        /\ monitoring.pc = "disposed" => monitoring.active = {}

\* what holds of C40: with dirname_libs unset the setup ends within the array
\* with monitors for configured directories only, and the clear that follows
\* cancels the monitors that are before the first NULL of the array
C40_SetupWithoutLibs ==
    (monitoring # NoMonitoring /\ monitoring.dirname_libs = None) =>
        /\ monitoring.pc \notin {"crashed", "overrun", "libs"}
        /\ monitoring.j <= 3
        /\ monitoring.active \subseteq MonitoredDirnames
        /\ (monitoring.pc = "disposed" /\ monitoring.dirname_etc # None) =>
               monitoring.active \subseteq {dirname_run}

\* the loop has passed the end of dirname_libs
C40_WitnessBehindTheList ==
    /\ monitoring # NoMonitoring
    /\ monitoring.pc = "libs"
    /\ monitoring.i > NM_PTRARRAY_LEN(monitoring.dirname_libs)

\* the loop has filled the array and goes on
C40_WitnessOverrun == monitoring # NoMonitoring /\ monitoring.pc = "overrun"

\* dirname_etc is unset: the monitor of /run is behind a NULL entry and is
\* still connected after _monitoring_clear()
C40_WitnessNotCancelled ==
    /\ monitoring # NoMonitoring
    /\ monitoring.pc = "disposed"
    /\ monitoring.dirname_etc = None
    /\ monitoring.active = {dirname_run}

====
